---- MODULE Spec2Model ----
(***************************************************************************)
(* A model of spork (Forge-Systems/spork): the command line pipeline of    *)
(* src/spork/cli.py with the collaborators it calls (validators.py,        *)
(* git_operations.py, worktree.py, data_models.py, claude.py).             *)
(*                                                                         *)
(* Strings are sequences of one-character strings, so that lower-casing,   *)
(* regular-expression matching, stripping, truncation, number formatting   *)
(* and number parsing are computed the way the code computes them.         *)
(*                                                                         *)
(* External commands: a subprocess exits 0, exits non-zero or times out;    *)
(* the choice is made by \E in the action that runs the command, among the *)
(* outcomes the repository's state allows.  A missing executable is an     *)
(* outcome of the commands whose callers handle FileNotFoundError; git,    *)
(* once found by check 1, is taken to stay installed between checks.       *)
(***************************************************************************)
EXTENDS Integers, Sequences, FiniteSets, TLC

VARIABLES
    repoBranches,     \* the repository's refs as `git branch -a` would list them
    remotePending,    \* branches on the remote not fetched yet
    worktrees,        \* worktree directories under <repo-root>/.worktrees
    pc,               \* per run: position in cli()
    feature_request,  \* per run: the raw FEATURE_REQUEST argument
    main_branch,      \* per run: cli.py local main_branch
    branches,         \* per run: cli.py local branches
    feature_number,   \* per run: cli.py local feature_number
    feature_req,      \* per run: cli.py local feature_req (FeatureRequest)
    worktree_config,  \* per run: cli.py local worktree_config
    exit_code,        \* per run: the process exit status, NoExit while running
    checks,           \* per run: the prerequisite checks evaluated, in order
    calls,            \* per run: the external commands invoked, in order
    created,          \* per run: arguments of each `git worktree add` invoked
    createResult,     \* per run: how create_worktree ended
    launched,         \* per run: arguments and outcome of each assistant launch
    copyReport,       \* per run: the reports of each .env propagation performed
    fnBranches,       \* allocator harness: the argument list
    fnResult,         \* allocator harness: the result of get_next_feature_number
    ctorArgs,         \* data models: the arguments given to a constructor
    ctorResult,       \* data models: what the constructor did with them
    sanIn,            \* sanitize harness: the arguments name and max_length
    sanOut,           \* sanitize harness: sanitize_feature_name of sanIn
    sanAgain,         \* sanitize harness: sanitize_feature_name of sanOut
    fsSource,         \* the main workspace: where it is, and the files under it
    fsDest,           \* the destination worktree path and what was put under it
    envPc,            \* env files: the position in the call being made
    envCalls,         \* env files: the external commands issued, in order
    repo_root,        \* copy_env_files_to_worktree: <<>> until resolved
    env_files,        \* copy_env_files_to_worktree: the discovered list
    envAttempts,      \* copy_env_files_to_worktree: the loop's iterations so far
    files_copied,     \* copy_env_files_to_worktree: local counter
    files_failed,     \* copy_env_files_to_worktree: local counter
    errors,           \* copy_env_files_to_worktree: the failure messages
    envResult,        \* env files: what the call returned or raised
    valIn,            \* validators: the validator called and what its commands did
    valOut            \* validators: what the validator returned

pipelineVars ==
    <<repoBranches, remotePending, worktrees, pc, feature_request, main_branch,
      branches, feature_number, feature_req, worktree_config, exit_code, checks,
      calls, created, createResult, launched, copyReport>>

allocVars == <<fnBranches, fnResult>>
ctorVars == <<ctorArgs, ctorResult>>

sanVars == <<sanIn, sanOut, sanAgain>>

fsVars == <<fsSource, fsDest>>
envLocals == <<repo_root, env_files, envAttempts, files_copied, files_failed, errors>>
envVars == <<fsVars, envPc, envCalls, envLocals, envResult>>

valVars == <<valIn, valOut>>

fnVars == <<allocVars, ctorVars, sanVars, envVars, valVars>>

vars == <<pipelineVars, fnVars>>

----------------------------------------------------------------------------
(* Bounds of the model *)

NumRuns == 2
MaxTextLen == 2
MaxRepoFeatures == 1
MaxExit == 5
MaxBranches == 2
MaxFormattedLen == 4
MaxSanitizeLen == 3
MaxSmallLength == 3
PadSlack == 2
MaxFiles == 3
MaxCount == 2
MaxNameLen == 2

(* Program constants *)

MaxFeatureNumber == 999
MaxTextChars == 500
MaxNameChars == 50
DefaultMaxLength == 50
PatternDigits == 3

----------------------------------------------------------------------------
(* Characters *)

LowerSeq ==
    <<"a","b","c","d","e","f","g","h","i","j","k","l","m",
      "n","o","p","q","r","s","t","u","v","w","x","y","z">>
UpperSeq ==
    <<"A","B","C","D","E","F","G","H","I","J","K","L","M",
      "N","O","P","Q","R","S","T","U","V","W","X","Y","Z">>
DigitSeq == <<"0","1","2","3","4","5","6","7","8","9">>

Range(s) == {s[i] : i \in DOMAIN s}

LowerLetters == Range(LowerSeq)
UpperLetters == Range(UpperSeq)
DigitChars == Range(DigitSeq)
Whitespace == {" ", "\t", "\n", "\r"}

IndexOf(s, c) == CHOOSE i \in DOMAIN s : s[i] = c

\* str.lower() on one character
LowerChar(c) == IF c \in UpperLetters THEN LowerSeq[IndexOf(UpperSeq, c)] ELSE c

\* int() of one decimal digit
DigitVal(c) == IndexOf(DigitSeq, c) - 1

\* a letter outside ASCII, alphanumeric for Python as any letter is
NonAsciiLetters == {"é"}

\* str.isalnum() on one character
IsAlnum(c) == c \in LowerLetters \cup UpperLetters \cup DigitChars \cup NonAsciiLetters

----------------------------------------------------------------------------
(* String helpers (Python str and re semantics) *)

Lower(s) == [i \in DOMAIN s |-> LowerChar(s[i])]

Replace(s, from, to) == [i \in DOMAIN s |-> IF s[i] = from THEN to ELSE s[i]]

\* re.sub(r"[^a-z0-9-]", "-", s)
SubDisallowed(s) ==
    [i \in DOMAIN s |->
        IF s[i] \in LowerLetters \cup DigitChars \cup {"-"} THEN s[i] ELSE "-"]

\* re.sub(r"-+", "-", s)
RECURSIVE CollapseHyphens(_)
CollapseHyphens(s) ==
    IF Len(s) <= 1 THEN s
    ELSE IF s[1] = "-" /\ s[2] = "-" THEN CollapseHyphens(Tail(s))
    ELSE <<s[1]>> \o CollapseHyphens(Tail(s))

RECURSIVE LStrip(_, _)
LStrip(s, cs) == IF s # <<>> /\ s[1] \in cs THEN LStrip(Tail(s), cs) ELSE s

RECURSIVE RStrip(_, _)
RStrip(s, cs) ==
    IF s # <<>> /\ s[Len(s)] \in cs THEN RStrip(SubSeq(s, 1, Len(s) - 1), cs) ELSE s

Strip(s, cs) == RStrip(LStrip(s, cs), cs)

\* s[:n]
Truncate(s, n) == IF Len(s) > n THEN SubSeq(s, 1, n) ELSE s

\* the index of the last "/" of s, 0 when there is none
LastSlash(s) ==
    LET at == {i \in DOMAIN s : s[i] = "/"}
    IN  IF at = {} THEN 0 ELSE CHOOSE i \in at : \A j \in at : j <= i

\* s.split("/")[-1]
AfterLastSlash(s) == SubSeq(s, LastSlash(s) + 1, Len(s))

\* the decimal digits of n >= 0, most significant first
RECURSIVE DecimalDigits(_)
DecimalDigits(n) ==
    IF n < 10 THEN <<DigitSeq[n + 1]>>
    ELSE DecimalDigits(n \div 10) \o <<DigitSeq[(n % 10) + 1]>>

\* f"{n:03d}", n >= 0
Format03d(n) ==
    LET d == DecimalDigits(n)
    IN  IF Len(d) >= 3 THEN d ELSE [i \in 1..(3 - Len(d)) |-> "0"] \o d

\* int(s) for a string of decimal digits
RECURSIVE ParseInt(_)
ParseInt(s) ==
    IF s = <<>> THEN 0
    ELSE 10 * ParseInt(SubSeq(s, 1, Len(s) - 1)) + DigitVal(s[Len(s)])

Max(S) == CHOOSE x \in S : \A y \in S : y <= x

SeqsUpTo(S, n) == UNION {[1..k -> S] : k \in 0..n}

----------------------------------------------------------------------------
(* src/spork/worktree.py *)

\* sanitize_feature_name without the rstrip after the truncation
sanitize_feature_name_NoRStrip(name, max_length) ==
    LET s5 == Strip(CollapseHyphens(SubDisallowed(
                  Replace(Replace(Lower(name), "_", "-"), " ", "-"))), {"-"})
    IN  Truncate(s5, max_length)

\* sanitize_feature_name without the strip of leading and trailing hyphens
sanitize_feature_name_NoStrip(name, max_length) ==
    LET s4 == CollapseHyphens(SubDisallowed(
                  Replace(Replace(Lower(name), "_", "-"), " ", "-")))
    IN  IF Len(s4) > max_length
        THEN RStrip(Truncate(s4, max_length), {"-"})
        ELSE s4

\* sanitize_feature_name without name.lower()
sanitize_feature_name_NoLower(name, max_length) ==
    LET s5 == Strip(CollapseHyphens(SubDisallowed(
                  Replace(Replace(name, "_", "-"), " ", "-"))), {"-"})
    IN  IF Len(s5) > max_length
        THEN RStrip(Truncate(s5, max_length), {"-"})
        ELSE s5

\* src/spork/worktree.py: sanitize_feature_name
sanitize_feature_name(name, max_length) ==
    LET s1 == Lower(name)
        s2 == Replace(Replace(s1, "_", "-"), " ", "-")
        s3 == SubDisallowed(s2)
        s4 == CollapseHyphens(s3)
        s5 == Strip(s4, {"-"})
    IN  IF Len(s5) > max_length
        THEN RStrip(Truncate(s5, max_length), {"-"})
        ELSE s5

\* the pattern without its hyphen, r"^(\d{3})"
PatternMatches_NoHyphen(branch_name) ==
    /\ Len(branch_name) >= PatternDigits
    /\ \A i \in 1..PatternDigits : branch_name[i] \in DigitChars

\* re.match(r"^(\d{3})-", branch_name) succeeds
PatternMatches(branch_name) ==
    /\ Len(branch_name) >= PatternDigits + 1
    /\ \A i \in 1..PatternDigits : branch_name[i] \in DigitChars
    /\ branch_name[PatternDigits + 1] = "-"

\* int(match.group(1))
MatchedNumber(branch_name) == ParseInt(SubSeq(branch_name, 1, PatternDigits))

\* the list feature_numbers built by the loop
RECURSIVE FeatureNumbers(_)
FeatureNumbers(bs) ==
    IF bs = <<>> THEN <<>>
    ELSE LET branch_name == AfterLastSlash(Head(bs))
         IN  (IF PatternMatches(branch_name)
              THEN <<MatchedNumber(branch_name)>> ELSE <<>>)
             \o FeatureNumbers(Tail(bs))

\* FeatureNumber without validate_formatted_matches_number
FeatureNumberValid_FieldsOnly(number, formatted) ==
    /\ number >= 1 /\ number <= MaxFeatureNumber
    /\ Len(formatted) = 3 /\ \A i \in 1..3 : formatted[i] \in DigitChars

\* src/spork/data_models.py: FeatureNumber's field and model validators
FeatureNumberValid(number, formatted) ==
    /\ number >= 1 /\ number <= MaxFeatureNumber
    /\ Len(formatted) = 3 /\ \A i \in 1..3 : formatted[i] \in DigitChars
    /\ formatted = Format03d(number)

NoNumber == [ok |-> FALSE, number |-> 0, formatted |-> <<>>]

\* an allocator that counts the feature branches instead of taking the maximum
get_next_feature_number_Count(bs) ==
    LET next_number == Len(FeatureNumbers(bs)) + 1
    IN  IF next_number > MaxFeatureNumber THEN NoNumber
        ELSE [ok |-> TRUE, number |-> next_number, formatted |-> Format03d(next_number)]

\* an allocator that hands out the highest number in use again
get_next_feature_number_Max(bs) ==
    LET feature_numbers == FeatureNumbers(bs)
        next_number == IF feature_numbers # <<>> THEN Max(Range(feature_numbers)) ELSE 1
    IN  IF next_number > MaxFeatureNumber THEN NoNumber
        ELSE [ok |-> TRUE, number |-> next_number, formatted |-> Format03d(next_number)]

get_next_feature_number(bs) ==
    LET feature_numbers == FeatureNumbers(bs)
        next_number == IF feature_numbers # <<>>
                       THEN Max(Range(feature_numbers)) + 1
                       ELSE 1
    IN  IF next_number > MaxFeatureNumber THEN NoNumber
        ELSE IF ~FeatureNumberValid(next_number, Format03d(next_number)) THEN NoNumber
        ELSE [ok |-> TRUE, number |-> next_number, formatted |-> Format03d(next_number)]

----------------------------------------------------------------------------
(* src/spork/data_models.py *)

NoMessage == <<>>

\* bool(error_message): None and "" are false
MessageTruthy(error_message) == \E i \in DOMAIN error_message : error_message[i] # ""

\* a validator that refuses a missing message only
ValidationResultValid_NoneOnly(passed, error_message) ==
    passed \/ error_message # NoMessage

\* ValidationResult with its model validator: a failed result needs a message
ValidationResultValid(passed, error_message) == passed \/ MessageTruthy(error_message)

ValidationResult(check_name, passed, error_message, suggestion, cmds) ==
    [check_name |-> check_name, passed |-> passed,
     error_message |-> error_message, suggestion |-> suggestion, cmds |-> cmds]

\* FeatureRequest's Field constraints and validate_sanitized_name
FeatureRequestValid(text, sanitized_name) ==
    /\ Len(text) >= 1 /\ Len(text) <= MaxTextChars
    /\ Len(sanitized_name) >= 1 /\ Len(sanitized_name) <= MaxNameChars
    /\ \A i \in DOMAIN sanitized_name :
          IsAlnum(sanitized_name[i]) \/ sanitized_name[i] = "-"

NoRequest == [ok |-> FALSE, text |-> <<>>, sanitized_name |-> <<>>]

\* WorktreeConfig declares five typed fields and no validator: construction
\* from values of the declared types succeeds
WorktreeConfigValid(bname, path, base, number, request) == number.ok /\ request.ok

NoPath == [root |-> "", dir |-> "", name |-> <<>>]

NoConfig ==
    [ok |-> FALSE, branch_name |-> <<>>, directory_path |-> NoPath,
     base_branch |-> ""]

----------------------------------------------------------------------------
(* src/spork/validators.py *)

validate_git_installed(out) ==
    IF out = "exit0"
    THEN ValidationResult("git_installed", TRUE, NoMessage, NoMessage,
                          <<"git --version">>)
    ELSE ValidationResult("git_installed", FALSE,
                          <<"Git is not installed or not in PATH">>,
                          <<"Install git: https://git-scm.com/downloads">>,
                          <<"git --version">>)

\* a scaffold check that runs its three commands whatever the earlier ones said
is_spec_kit_initialized_AllAtOnce(base, ignored, show, templates, scripts) ==
    LET ok == ~ignored /\ show = "exit0" /\ templates = "exit0" /\ scripts = "exit0"
    IN  ValidationResult("spec_kit_on_main", ok,
                         IF ok THEN NoMessage ELSE <<"Spec Kit not found on ", base, " branch">>,
                         NoMessage,
                         <<"git show", "git ls-tree templates", "git ls-tree scripts">>)

is_spec_kit_initialized(base, ignored, show, templates, scripts) ==
    IF ignored
    THEN ValidationResult("spec_kit_on_main", FALSE,
                          <<"Spec Kit (.specify/) is listed in .gitignore">>,
                          <<"Remove .specify/ from .gitignore">>, <<>>)
    ELSE IF show = "nonzero"
    THEN ValidationResult("spec_kit_on_main", FALSE,
                          <<"Spec Kit not found on ", base, " branch">>,
                          <<"Ensure Spec Kit is initialized and committed">>,
                          <<"git show">>)
    ELSE IF show = "timeout"
    THEN ValidationResult("spec_kit_on_main", FALSE,
                          <<"Could not verify Spec Kit on ", base, " branch">>,
                          <<"Ensure git is working and you have network access">>,
                          <<"git show">>)
    ELSE IF templates \in {"nonzero", "empty"}
    THEN ValidationResult("spec_kit_on_main", FALSE,
                          <<"Spec Kit incomplete on ", base, " branch (",
                            ".specify/templates", " missing)">>,
                          <<"Run 'specify init .' and commit">>,
                          <<"git show", "git ls-tree templates">>)
    ELSE IF templates = "timeout"
    THEN ValidationResult("spec_kit_on_main", FALSE,
                          <<"Could not verify Spec Kit structure on ", base, " branch">>,
                          <<"Ensure git is working properly">>,
                          <<"git show", "git ls-tree templates">>)
    ELSE IF scripts \in {"nonzero", "empty"}
    THEN ValidationResult("spec_kit_on_main", FALSE,
                          <<"Spec Kit incomplete on ", base, " branch (",
                            ".specify/scripts", " missing)">>,
                          <<"Run 'specify init .' and commit">>,
                          <<"git show", "git ls-tree templates", "git ls-tree scripts">>)
    ELSE IF scripts = "timeout"
    THEN ValidationResult("spec_kit_on_main", FALSE,
                          <<"Could not verify Spec Kit structure on ", base, " branch">>,
                          <<"Ensure git is working properly">>,
                          <<"git show", "git ls-tree templates", "git ls-tree scripts">>)
    ELSE ValidationResult("spec_kit_on_main", TRUE, NoMessage, NoMessage,
                          <<"git show", "git ls-tree templates", "git ls-tree scripts">>)

is_claude_code_installed(out) ==
    IF out = "exit0"
    THEN ValidationResult("claude_code_installed", TRUE, NoMessage, NoMessage,
                          <<"claude --version">>)
    ELSE ValidationResult("claude_code_installed", FALSE,
                          <<"Claude Code not found in PATH">>,
                          <<"Install Claude Code or add to PATH">>,
                          <<"claude --version">>)

----------------------------------------------------------------------------
(* src/spork/git_operations.py *)

MainName == <<"m","a","i","n">>
MasterName == <<"m","a","s","t","e","r">>
RepoRoot == "/repo"

\* True iff the command exits 0 and prints "true"
is_git_repository(out) == out = "true"

\* the outcomes `git rev-parse --verify <name>` can have in this repository
VerifyOutcomes(name) ==
    IF name \in Range(repoBranches) THEN {"exit0", "timeout"} ELSE {"nonzero", "timeout"}

\* a lookup that falls back to "main" when neither branch is found
get_main_branch_Default(outMain, outMaster) ==
    IF outMain = "exit0"
    THEN [kind |-> "ok", value |-> "main", cmds |-> <<"git rev-parse --verify main">>]
    ELSE IF outMain = "timeout"
    THEN [kind |-> "TimeoutExpired", value |-> "", cmds |-> <<"git rev-parse --verify main">>]
    ELSE IF outMaster = "exit0"
    THEN [kind |-> "ok", value |-> "master",
          cmds |-> <<"git rev-parse --verify main", "git rev-parse --verify master">>]
    ELSE IF outMaster = "timeout"
    THEN [kind |-> "TimeoutExpired", value |-> "",
          cmds |-> <<"git rev-parse --verify main", "git rev-parse --verify master">>]
    ELSE [kind |-> "ok", value |-> "main",
          cmds |-> <<"git rev-parse --verify main", "git rev-parse --verify master">>]

\* a lookup that tries "master" first
get_main_branch_MasterFirst(outMain, outMaster) ==
    IF outMaster = "exit0"
    THEN [kind |-> "ok", value |-> "master", cmds |-> <<"git rev-parse --verify master">>]
    ELSE IF outMaster = "timeout"
    THEN [kind |-> "TimeoutExpired", value |-> "", cmds |-> <<"git rev-parse --verify master">>]
    ELSE IF outMain = "exit0"
    THEN [kind |-> "ok", value |-> "main",
          cmds |-> <<"git rev-parse --verify master", "git rev-parse --verify main">>]
    ELSE IF outMain = "timeout"
    THEN [kind |-> "TimeoutExpired", value |-> "",
          cmds |-> <<"git rev-parse --verify master", "git rev-parse --verify main">>]
    ELSE [kind |-> "RuntimeError", value |-> "",
          cmds |-> <<"git rev-parse --verify master", "git rev-parse --verify main">>]

\* get_main_branch: only CalledProcessError is caught, a timeout propagates
get_main_branch(outMain, outMaster) ==
    IF outMain = "exit0"
    THEN [kind |-> "ok", value |-> "main", cmds |-> <<"git rev-parse --verify main">>]
    ELSE IF outMain = "timeout"
    THEN [kind |-> "TimeoutExpired", value |-> "", cmds |-> <<"git rev-parse --verify main">>]
    ELSE IF outMaster = "exit0"
    THEN [kind |-> "ok", value |-> "master",
          cmds |-> <<"git rev-parse --verify main", "git rev-parse --verify master">>]
    ELSE IF outMaster = "timeout"
    THEN [kind |-> "TimeoutExpired", value |-> "",
          cmds |-> <<"git rev-parse --verify main", "git rev-parse --verify master">>]
    ELSE [kind |-> "RuntimeError", value |-> "",
          cmds |-> <<"git rev-parse --verify main", "git rev-parse --verify master">>]

\* git_fetch: True iff the command exits 0
git_fetch(out) == out = "exit0"

\* list_all_branches: the non-empty lines of the output, [] on any failure
list_all_branches(out, refs) ==
    IF out = "exit0" THEN SelectSeq(refs, LAMBDA b : b # <<>>) ELSE <<>>

\* what `git worktree add <path> -b <branch> <base>` can do in this repository:
\* it refuses when the branch or the directory is already there
\* the outcome carries which of the two phrases the text on stderr contains
StderrTexts == SUBSET {"already exists", "Permission denied"}

WorktreeAddOutcomes(bname) ==
    IF bname \in Range(repoBranches) \/ bname \in worktrees
    THEN [kind : {"nonzero"}, stderr : {t \in StderrTexts : "already exists" \in t}]
         \cup [kind : {"timeout"}, stderr : StderrTexts]
    ELSE [kind : {"exit0", "notfound"}, stderr : {{}}]
         \cup [kind : {"nonzero", "timeout"}, stderr : StderrTexts]

\* create_worktree looking for "Permission denied" first
create_worktree_PermissionFirst(out) ==
    IF out.kind = "exit0" THEN "ok"
    ELSE IF out.kind = "nonzero"
    THEN (IF "Permission denied" \in out.stderr THEN "PermissionDenied"
          ELSE IF "already exists" \in out.stderr THEN "AlreadyExists"
          ELSE "Unknown")
    ELSE "Unknown"

\* create_worktree with one message for every failed command
create_worktree_Unclassified(out) == IF out.kind = "exit0" THEN "ok" ELSE "Unknown"

\* create_worktree: True, or the RuntimeError it raises, named by its message
create_worktree(out) ==
    IF out.kind = "exit0" THEN "ok"
    ELSE IF out.kind = "nonzero"
    THEN (IF "already exists" \in out.stderr THEN "AlreadyExists"
          ELSE IF "Permission denied" \in out.stderr THEN "PermissionDenied"
          ELSE "Unknown")
    ELSE "Unknown"

----------------------------------------------------------------------------
(* src/spork/claude.py *)

\* a launcher that reports only success or failure
launch_claude_code_Flattened(out) ==
    IF out.kind = "exit" THEN (IF out.code = 0 THEN 0 ELSE 1) ELSE 4

\* line 23: initial_message = f"/specify {feature_request}"
initial_message(request_text) == <<"/specify ">> \o request_text

\* launch_claude_code: the assistant's return code; 4 when subprocess.run raises
launch_claude_code(out) == IF out.kind = "exit" THEN out.code ELSE 4

----------------------------------------------------------------------------
(* src/spork/cli.py: one run of cli() per element of Runs *)

Runs == 1..NumRuns

\* no exit status yet: a value no process exits with
NoExit == 0 - 1

\* sys.exit(code)
Exit(r, code) ==
    /\ pc' = [pc EXCEPT ![r] = "done"]
    /\ exit_code' = [exit_code EXCEPT ![r] = code]

Goto(r, label) ==
    /\ pc' = [pc EXCEPT ![r] = label]
    /\ UNCHANGED exit_code

Called(r, cmds) == calls' = [calls EXCEPT ![r] = @ \o cmds]

Checked(r, k, passed) ==
    checks' = [checks EXCEPT ![r] = Append(@, [check |-> k, passed |-> passed])]

\* a check that lets the run go on whatever it reported
AfterCheck_NoExit(r, passed, next) == Goto(r, next)

\* `if not validation.passed: ... sys.exit(1)` (lines 51-55, 82-86, 91-95)
AfterCheck(r, passed, next) == IF ~passed THEN Exit(r, 1) ELSE Goto(r, next)

repoVars == <<repoBranches, remotePending, worktrees>>
localVars == <<main_branch, branches, feature_number, feature_req, worktree_config>>
effectVars == <<created, createResult, launched, copyReport>>

\* lines 39-44: the argument is empty or blank
CheckInput(r) ==
    /\ pc[r] = "start"
    /\ IF feature_request[r] = <<>> \/ Strip(feature_request[r], Whitespace) = <<>>
       THEN Exit(r, 3)
       ELSE Goto(r, "validate_git")
    /\ UNCHANGED <<repoVars, localVars, effectVars, feature_request, checks, calls, fnVars>>

\* lines 49-56: check 1, git installed
ValidateGit(r) ==
    /\ pc[r] = "validate_git"
    /\ \E out \in {"exit0", "nonzero", "timeout", "notfound"} :
          LET git_validation == validate_git_installed(out)
          IN  /\ Called(r, git_validation.cmds)
              /\ Checked(r, 1, git_validation.passed)
              /\ AfterCheck(r, git_validation.passed, "check_repo")
    /\ UNCHANGED <<repoVars, localVars, effectVars, feature_request, fnVars>>

\* lines 58-71: check 2, inside a work tree, and the repository root
CheckRepository(r) ==
    /\ pc[r] = "check_repo"
    /\ \E out \in {"true", "false", "nonzero", "timeout"},
          root \in {"exit0", "nonzero", "timeout"} :
          IF ~is_git_repository(out)
          THEN /\ Called(r, <<"git rev-parse --is-inside-work-tree">>)
               /\ Checked(r, 2, FALSE)
               /\ Exit(r, 1)
          ELSE /\ Called(r, <<"git rev-parse --is-inside-work-tree",
                              "git rev-parse --show-toplevel">>)
               /\ Checked(r, 2, root = "exit0")
               /\ IF root # "exit0" THEN Exit(r, 1) ELSE Goto(r, "main_branch")
    /\ UNCHANGED <<repoVars, localVars, effectVars, feature_request, fnVars>>

\* lines 73-78: the base branch; an uncaught TimeoutExpired ends the process
\* with a traceback and status 1
GetMainBranch(r) ==
    /\ pc[r] = "main_branch"
    /\ \E outMain \in VerifyOutcomes(MainName), outMaster \in VerifyOutcomes(MasterName) :
          LET res == get_main_branch(outMain, outMaster)
          IN  /\ Called(r, res.cmds)
              /\ main_branch' = [main_branch EXCEPT ![r] = res.value]
              /\ IF res.kind = "ok" THEN Goto(r, "spec_kit")
                 ELSE IF res.kind = "RuntimeError" THEN Exit(r, 2)
                 ELSE /\ pc' = [pc EXCEPT ![r] = "crashed"]
                      /\ exit_code' = [exit_code EXCEPT ![r] = 1]
    /\ UNCHANGED <<repoVars, branches, feature_number, feature_req, worktree_config,
                   effectVars, feature_request, checks, fnVars>>

\* lines 80-87: check 3, the scaffold on the base branch
CheckSpecKit(r) ==
    /\ pc[r] = "spec_kit"
    /\ \E ignored \in BOOLEAN, show \in {"exit0", "nonzero", "timeout"},
          templates \in {"exit0", "empty", "nonzero", "timeout"},
          scripts \in {"exit0", "empty", "nonzero", "timeout"} :
          LET spec_kit_validation ==
                  is_spec_kit_initialized(main_branch[r], ignored, show, templates, scripts)
          IN  /\ Called(r, spec_kit_validation.cmds)
              /\ Checked(r, 3, spec_kit_validation.passed)
              /\ AfterCheck(r, spec_kit_validation.passed, "claude_check")
    /\ UNCHANGED <<repoVars, localVars, effectVars, feature_request, fnVars>>

\* check 4 reduced to a warning, the way the fetch is
CheckClaude_Continue(r) ==
    /\ pc[r] = "claude_check"
    /\ \E out \in {"exit0", "nonzero", "timeout", "notfound"} :
          LET claude_validation == is_claude_code_installed(out)
          IN  /\ Called(r, claude_validation.cmds)
              /\ Checked(r, 4, claude_validation.passed)
              /\ Goto(r, "fetch")
    /\ UNCHANGED <<repoVars, localVars, effectVars, feature_request, fnVars>>

\* lines 89-96: check 4, the assistant installed
CheckClaude(r) ==
    /\ pc[r] = "claude_check"
    /\ \E out \in {"exit0", "nonzero", "timeout", "notfound"} :
          LET claude_validation == is_claude_code_installed(out)
          IN  /\ Called(r, claude_validation.cmds)
              /\ Checked(r, 4, claude_validation.passed)
              /\ AfterCheck(r, claude_validation.passed, "fetch")
    /\ UNCHANGED <<repoVars, localVars, effectVars, feature_request, fnVars>>

\* lines 98-102: git fetch; a failure is a warning.  A fetch that succeeds
\* brings the remote's branches into the repository's refs.
Fetch(r) ==
    /\ pc[r] = "fetch"
    /\ \E out \in {"exit0", "nonzero", "timeout"} :
          IF git_fetch(out)
          THEN /\ repoBranches' =
                     repoBranches \o SelectSeq(remotePending,
                                               LAMBDA b : b \notin Range(repoBranches))
               /\ remotePending' = <<>>
          ELSE UNCHANGED <<repoBranches, remotePending>>
    /\ Called(r, <<"git fetch">>)
    /\ Goto(r, "list")
    /\ UNCHANGED <<worktrees, localVars, effectVars, feature_request, checks, fnVars>>

\* line 105: the branch listing
ListBranches(r) ==
    /\ pc[r] = "list"
    /\ \E out \in {"exit0", "nonzero", "timeout"} :
          branches' = [branches EXCEPT ![r] = list_all_branches(out, repoBranches)]
    /\ Called(r, <<"git branch -a">>)
    /\ Goto(r, "allocate")
    /\ UNCHANGED <<repoVars, main_branch, feature_number, feature_req, worktree_config,
                   effectVars, feature_request, checks, fnVars>>

\* lines 106-111: the next feature number
AllocateNumber(r) ==
    /\ pc[r] = "allocate"
    /\ LET res == get_next_feature_number(branches[r])
       IN  /\ feature_number' = [feature_number EXCEPT ![r] = res]
           /\ IF res.ok THEN Goto(r, "request") ELSE Exit(r, 2)
    /\ UNCHANGED <<repoVars, main_branch, branches, feature_req, worktree_config,
                   effectVars, feature_request, checks, calls, fnVars>>

\* the FeatureRequest taken as given, its field constraints not applied
BuildRequest_Unvalidated(r) ==
    /\ pc[r] = "request"
    /\ feature_req' = [feature_req EXCEPT ![r] =
           [ok |-> TRUE, text |-> feature_request[r],
            sanitized_name |-> sanitize_feature_name(feature_request[r], DefaultMaxLength)]]
    /\ Goto(r, "config")
    /\ UNCHANGED <<repoVars, main_branch, branches, feature_number, worktree_config,
                   effectVars, feature_request, checks, calls, fnVars>>

\* lines 113-122: the FeatureRequest
BuildRequest(r) ==
    /\ pc[r] = "request"
    /\ LET sanitized_name == sanitize_feature_name(feature_request[r], DefaultMaxLength)
       IN  IF FeatureRequestValid(feature_request[r], sanitized_name)
           THEN /\ feature_req' = [feature_req EXCEPT ![r] =
                       [ok |-> TRUE, text |-> feature_request[r],
                        sanitized_name |-> sanitized_name]]
                /\ Goto(r, "config")
           ELSE /\ UNCHANGED feature_req
                /\ Exit(r, 3)
    /\ UNCHANGED <<repoVars, main_branch, branches, feature_number, worktree_config,
                   effectVars, feature_request, checks, calls, fnVars>>

\* a branch name composed from the number as int() left it
BuildConfig_Unpadded(r) ==
    /\ pc[r] = "config"
    /\ LET branch_name == DecimalDigits(feature_number[r].number) \o <<"-">>
                              \o feature_req[r].sanitized_name
           worktree_path == [root |-> RepoRoot, dir |-> ".worktrees", name |-> branch_name]
       IN  /\ worktree_config' = [worktree_config EXCEPT ![r] =
                   [ok |-> TRUE, branch_name |-> branch_name,
                    directory_path |-> worktree_path, base_branch |-> main_branch[r]]]
           /\ Goto(r, "create")
    /\ UNCHANGED <<repoVars, main_branch, branches, feature_number, feature_req,
                   effectVars, feature_request, checks, calls, fnVars>>

\* lines 124-138: the WorktreeConfig
BuildConfig(r) ==
    /\ pc[r] = "config"
    /\ LET branch_name == feature_number[r].formatted \o <<"-">> \o feature_req[r].sanitized_name
           worktree_path == [root |-> RepoRoot, dir |-> ".worktrees", name |-> branch_name]
       IN  IF WorktreeConfigValid(branch_name, worktree_path, main_branch[r],
                                  feature_number[r], feature_req[r])
           THEN /\ worktree_config' = [worktree_config EXCEPT ![r] =
                       [ok |-> TRUE, branch_name |-> branch_name,
                        directory_path |-> worktree_path, base_branch |-> main_branch[r]]]
                /\ Goto(r, "create")
           ELSE /\ UNCHANGED worktree_config
                /\ Exit(r, 4)
    /\ UNCHANGED <<repoVars, main_branch, branches, feature_number, feature_req,
                   effectVars, feature_request, checks, calls, fnVars>>

\* the exit status cli() maps a failed create_worktree to (line 150)
CreateFailureExit == 2

\* a failed creation that is reported and then ignored
AfterCreate_Continue(r, res) == Goto(r, "launch")

\* lines 148-150: `except RuntimeError: ... sys.exit(2)`
AfterCreate(r, res) == IF res = "ok" THEN Goto(r, "launch") ELSE Exit(r, CreateFailureExit)

\* lines 140-150: git worktree add
CreateWorktree(r) ==
    /\ pc[r] = "create"
    /\ \E out \in WorktreeAddOutcomes(worktree_config[r].branch_name) :
          LET res == create_worktree(out)
          IN  /\ createResult' = [createResult EXCEPT ![r] = res]
              /\ IF res = "ok"
                 THEN /\ repoBranches' = Append(repoBranches, worktree_config[r].branch_name)
                      /\ worktrees' = worktrees \cup {worktree_config[r].branch_name}
                 ELSE UNCHANGED <<repoBranches, worktrees>>
              /\ AfterCreate(r, res)
              /\ created' = [created EXCEPT ![r] =
                    Append(@, [path |-> worktree_config[r].directory_path,
                       branch_name |-> worktree_config[r].branch_name,
                       base_branch |-> worktree_config[r].base_branch,
                       existed |-> worktree_config[r].branch_name \in Range(repoBranches)
                                      \/ worktree_config[r].branch_name \in worktrees,
                       out |-> out])]
              /\ Called(r, <<"git worktree add">>)
    /\ UNCHANGED <<remotePending, localVars, launched, copyReport, feature_request,
                   checks, fnVars>>

\* what running the assistant can do: exit with a status, or fail to start
LaunchOutcomes ==
    [kind : {"exit"}, code : 0..MaxExit] \cup [kind : {"notfound", "oserror"}, code : {0}]

\* a call that hands over the sanitized name
LaunchArguments_SanitizedName(r) ==
    [worktree_path |-> worktree_config[r].directory_path,
     feature_request |-> feature_req[r].sanitized_name]

\* lines 154-157: the arguments of launch_claude_code
LaunchArguments(r) ==
    [worktree_path |-> worktree_config[r].directory_path,
     feature_request |-> feature_req[r].text]

\* lines 152-160: the assistant, and its exit status as the process's
LaunchClaude(r) ==
    /\ pc[r] = "launch"
    /\ \E out \in LaunchOutcomes :
          LET code == launch_claude_code(out)
          IN  /\ Exit(r, code)
              /\ launched' = [launched EXCEPT ![r] =
                    Append(@, [cwd |-> LaunchArguments(r).worktree_path,
                               argv |-> <<"claude",
                                          initial_message(LaunchArguments(r).feature_request)>>,
                               outcome |-> out])]
    /\ Called(r, <<"claude">>)
    /\ UNCHANGED <<repoVars, localVars, created, createResult, copyReport,
                   feature_request, checks, fnVars>>

Step(r) ==
    \/ CheckInput(r)
    \/ ValidateGit(r)
    \/ CheckRepository(r)
    \/ GetMainBranch(r)
    \/ CheckSpecKit(r)
    \/ CheckClaude(r)
    \/ Fetch(r)
    \/ ListBranches(r)
    \/ AllocateNumber(r)
    \/ BuildRequest(r)
    \/ BuildConfig(r)
    \/ CreateWorktree(r)
    \/ LaunchClaude(r)

----------------------------------------------------------------------------
(* The pipeline specification: one invocation against a repository *)

TextAlphabet == {"a", "B", " ", "_", "#"}

\* a text longer than FeatureRequest.text allows
LongText == [i \in 1..(MaxTextChars + 1) |-> "a"]

Texts == SeqsUpTo(TextAlphabet, MaxTextLen) \cup {LongText}

\* feature branches a repository may already hold, in listing order
RepoFeatureNames ==
    << <<"0","0","1","-","a">>, <<"0","0","7","-","b">>, <<"9","9","9","-","z">> >>

RemoteNames == << <<"o","/","0","1","2","-","r">> >>

\* the subsequence of s at the indices in I
RECURSIVE Pick(_, _)
Pick(s, I) ==
    IF s = <<>> THEN <<>>
    ELSE (IF Len(s) \in I THEN Pick(SubSeq(s, 1, Len(s) - 1), I) \o <<s[Len(s)]>>
          ELSE Pick(SubSeq(s, 1, Len(s) - 1), I))

Repositories ==
    { Pick(<<MainName, MasterName>>, B) \o Pick(RepoFeatureNames, F) :
        B \in SUBSET {1, 2},
        F \in {G \in SUBSET DOMAIN RepoFeatureNames : Cardinality(G) <= MaxRepoFeatures} }

NoArgs == [kind |-> "none"]

CtorIdle ==
    /\ ctorArgs = NoArgs
    /\ ctorResult = <<>>

SanIdle ==
    /\ sanIn = [name |-> <<>>, max_length |-> DefaultMaxLength]
    /\ sanOut = <<>>
    /\ sanAgain = <<>>

EnvIdle ==
    /\ fsSource = [at |-> <<>>, tree |-> {}]
    /\ fsDest = [kind |-> "missing", files |-> {}, dirs |-> {}]
    /\ envPc = "idle"
    /\ envCalls = <<>>
    /\ repo_root = <<>>
    /\ env_files = <<>>
    /\ envAttempts = <<>>
    /\ files_copied = 0
    /\ files_failed = 0
    /\ errors = <<>>
    /\ envResult = <<>>

ValIdle ==
    /\ valIn = [fn |-> "none"]
    /\ valOut = <<>>

FnIdle ==
    /\ fnBranches = <<>>
    /\ fnResult = <<>>
    /\ CtorIdle
    /\ SanIdle
    /\ EnvIdle
    /\ ValIdle

\* the state of cli() before it starts
Fresh(active, texts) ==
    /\ worktrees = {}
    /\ pc = [r \in Runs |-> IF r \in active THEN "start" ELSE "idle"]
    /\ feature_request \in
          {[r \in Runs |-> IF r \in active THEN f[r] ELSE <<>>] : f \in [active -> texts]}
    /\ main_branch = [r \in Runs |-> ""]
    /\ branches = [r \in Runs |-> <<>>]
    /\ feature_number = [r \in Runs |-> NoNumber]
    /\ feature_req = [r \in Runs |-> NoRequest]
    /\ worktree_config = [r \in Runs |-> NoConfig]
    /\ exit_code = [r \in Runs |-> NoExit]
    /\ checks = [r \in Runs |-> <<>>]
    /\ calls = [r \in Runs |-> <<>>]
    /\ created = [r \in Runs |-> <<>>]
    /\ createResult = [r \in Runs |-> "none"]
    /\ launched = [r \in Runs |-> <<>>]
    /\ copyReport = [r \in Runs |-> <<>>]

Init ==
    /\ repoBranches \in Repositories
    /\ remotePending \in {<<>>, RemoteNames}
    /\ Fresh({1}, Texts)
    /\ FnIdle

Next == \E r \in Runs : Step(r)

Spec == Init /\ [][Next]_vars

----------------------------------------------------------------------------
(* Several invocations against one repository, one after the other: an
   invocation starts when the ones before it have ended *)

SequentialTexts == {<<"a">>, <<"B", "#">>}

\* the runs ask for the two texts in turn
SequentialText(r) == IF r % 2 = 1 THEN <<"a">> ELSE <<"B", "#">>

\* a repository with main alone, and one that holds a feature branch too
SequentialRepositories == {<<MainName>>, <<MainName, RepoFeatureNames[2]>>}

InitSequential ==
    /\ repoBranches \in SequentialRepositories
    /\ remotePending = RemoteNames
    /\ Fresh(Runs, SequentialTexts)
    /\ feature_request = [r \in Runs |-> SequentialText(r)]
    /\ FnIdle

StepInTurn(r) ==
    /\ \A q \in Runs : q < r => pc[q] \in {"done", "crashed"}
    /\ Step(r)

NextSequential == \E r \in Runs : StepInTurn(r)

SpecSequential == InitSequential /\ [][NextSequential]_vars

----------------------------------------------------------------------------
(* Two invocations against one repository at the same time: their steps
   interleave freely, nothing in cli() takes a lock *)

RaceRuns == {1, 2}

RaceTexts == {<<"a">>, <<"B", "#">>}

InitRace ==
    /\ repoBranches \in SequentialRepositories
    /\ remotePending = <<>>
    /\ Fresh(RaceRuns, RaceTexts)
    /\ FnIdle

NextRace == \E r \in RaceRuns : Step(r)

SpecRace == InitRace /\ [][NextRace]_vars

----------------------------------------------------------------------------
(* The allocator specification: get_next_feature_number on bounded lists *)

HarnessDigits == {"0", "9"}

DigitRuns(k) == [1..k -> HarnessDigits]

XTail == <<"-", "x">>

\* branch names with one digit too few, exactly enough and one too many, with
\* and without a remote prefix, with the digits not at the start, without the
\* hyphen, and with a matching segment before the final "/"
BranchNames ==
    {d \o XTail : d \in UNION {DigitRuns(k) : k \in (PatternDigits - 1)..(PatternDigits + 1)}}
    \cup {<<"o", "/">> \o d \o XTail : d \in DigitRuns(PatternDigits)}
    \cup {<<"x">> \o d \o XTail : d \in DigitRuns(PatternDigits)}
    \cup {d \o <<"x">> : d \in DigitRuns(PatternDigits)}
    \cup {MainName, <<"9","9","0","-","x","/","y">>, <<"a","/","b","/","0","9","9","-","x">>}

\* arguments a caller may give to FeatureNumber(number=..., formatted=...)
FeatureNumberArgs ==
    [kind : {"FeatureNumber"},
     number : {0 - 1, 0, 1, 7, 77, 700, MaxFeatureNumber, MaxFeatureNumber + 1},
     formatted : SeqsUpTo({"0", "7", "9", "a"}, MaxFormattedLen)]

PipelineIdle ==
    /\ repoBranches = <<>>
    /\ remotePending = <<>>
    /\ Fresh({}, {})

InitAlloc ==
    /\ PipelineIdle
    /\ fnResult = <<>>
    /\ ctorResult = <<>>
    /\ SanIdle
    /\ EnvIdle
    /\ ValIdle
    /\ \/ fnBranches \in SeqsUpTo(BranchNames, MaxBranches) /\ ctorArgs = NoArgs
       \/ fnBranches = <<>> /\ ctorArgs \in FeatureNumberArgs

Allocate ==
    /\ fnResult = <<>>
    /\ fnResult' = <<get_next_feature_number(fnBranches)>>
    /\ UNCHANGED <<pipelineVars, valVars, fnBranches, ctorVars, sanVars, envVars>>

\* FeatureNumber(number=..., formatted=...): the object, or a ValidationError
ConstructFeatureNumber ==
    /\ ctorArgs.kind = "FeatureNumber"
    /\ ctorResult = <<>>
    /\ ctorResult' = <<[ok |-> FeatureNumberValid(ctorArgs.number, ctorArgs.formatted)]>>
    /\ UNCHANGED <<pipelineVars, valVars, allocVars, ctorArgs, sanVars, envVars>>

NextAlloc == Allocate \/ ConstructFeatureNumber

SpecAlloc == InitAlloc /\ [][NextAlloc]_vars

----------------------------------------------------------------------------
(* The sanitizer on its own: sanitize_feature_name applied to a chosen
   name, and then to its own result *)

SanitizeAlphabet == {"a", "B", "7", "-", "_", " ", "#"}

\* a run of n letters, the start of a name near the default limit
Pad(n) == [i \in 1..n |-> "a"]

\* the examples of the function's docstring
ExampleFixBug ==
    <<"F","i","x"," ","b","u","g"," ","#","1","2","3"," ",
      "(","c","r","i","t","i","c","a","l","!",")">>
ExampleAddUser ==
    <<"a","d","d","_","u","s","e","r","_","p","r","o","f","i","l","e">>

ShortNames == SeqsUpTo(SanitizeAlphabet, MaxSanitizeLen)

LongNames ==
    {Pad(DefaultMaxLength - k) \o t : k \in 0..PadSlack, t \in ShortNames}

SanitizeInputs ==
    [name : ShortNames, max_length : (1..MaxSmallLength) \cup {DefaultMaxLength}]
    \cup [name : LongNames \cup {ExampleFixBug, ExampleAddUser},
          max_length : {DefaultMaxLength}]

InitSanitize ==
    /\ PipelineIdle
    /\ fnBranches = <<>>
    /\ fnResult = <<>>
    /\ CtorIdle
    /\ EnvIdle
    /\ ValIdle
    /\ sanIn \in SanitizeInputs
    /\ sanOut = <<>>
    /\ sanAgain = <<>>

Sanitize ==
    /\ sanOut = <<>>
    /\ sanOut' = <<sanitize_feature_name(sanIn.name, sanIn.max_length)>>
    /\ UNCHANGED <<pipelineVars, valVars, allocVars, ctorVars, sanIn, sanAgain, envVars>>

SanitizeAgain ==
    /\ sanOut # <<>>
    /\ sanAgain = <<>>
    /\ sanAgain' = <<sanitize_feature_name(sanOut[1], sanIn.max_length)>>
    /\ UNCHANGED <<pipelineVars, valVars, allocVars, ctorVars, sanIn, sanOut, envVars>>

NextSanitize == Sanitize \/ SanitizeAgain

SpecSanitize == InitSanitize /\ [][NextSanitize]_vars

----------------------------------------------------------------------------
(* Paths: pathlib.Path as the sequence of its parts, str as characters *)

EnvName == <<".","e","n","v">>
EnvLocalName == <<".","e","n","v",".","l","o","c","a","l">>
EnvDirName == <<".","e","n","v",".","d">>
EnvsDirName == <<".","e","n","v","s">>
MyEnvName == <<"m","y",".","e","n","v">>
SubDirName == <<"s","u","b">>
GitDirName == <<".","g","i","t">>
GithubDirName == <<".","g","i","t","h","u","b">>
WorktreesDirName == <<".","w","o","r","k","t","r","e","e","s">>
WorktreeName == <<"0","0","1","-","x">>
RepoName == <<"r","e","p","o">>

\* the characters of the names above, in code point order
CharOrder == <<"-", ".", "/">> \o DigitSeq \o UpperSeq \o <<"_">> \o LowerSeq

CharCode(c) == IndexOf(CharOrder, c)

\* a < b for Python str
RECURSIVE StrLess(_, _)
StrLess(a, b) ==
    IF b = <<>> THEN FALSE
    ELSE IF a = <<>> THEN TRUE
    ELSE IF a[1] = b[1] THEN StrLess(Tail(a), Tail(b))
    ELSE CharCode(a[1]) < CharCode(b[1])

\* sorted(S) for a set of distinct strings
RECURSIVE Sorted(_)
Sorted(S) ==
    IF S = {} THEN <<>>
    ELSE LET least == CHOOSE x \in S : \A y \in S \ {x} : StrLess(x, y)
         IN  <<least>> \o Sorted(S \ {least})

\* str(path): the parts joined by "/"
RECURSIVE Join(_)
Join(parts) ==
    IF parts = <<>> THEN <<>>
    ELSE IF Len(parts) = 1 THEN parts[1]
    ELSE parts[1] \o <<"/">> \o Join(Tail(parts))

\* Path(s).parts for a relative path s
RECURSIVE PathParts(_)
PathParts(str) ==
    LET at == {i \in DOMAIN str : str[i] = "/"}
    IN  IF at = {} THEN (IF str = <<>> THEN <<>> ELSE <<str>>)
        ELSE LET i == CHOOSE k \in at : \A j \in at : k <= j
             IN  (IF i = 1 THEN <<>> ELSE <<SubSeq(str, 1, i - 1)>>)
                 \o PathParts(SubSeq(str, i + 1, Len(str)))

\* fnmatch(name, ".env*")
MatchesEnvPattern(name) ==
    Len(name) >= Len(EnvName) /\ SubSeq(name, 1, Len(EnvName)) = EnvName

\* every directory a path goes through, as paths from the same start
Ancestors(parts) == {SubSeq(parts, 1, k) : k \in 1..(Len(parts) - 1)}

\* the files and directories of a tree, the implied parent directories included
Nodes(tree) ==
    tree \cup {[rel |-> d, kind |-> "dir"] : d \in UNION {Ancestors(e.rel) : e \in tree}}

----------------------------------------------------------------------------
(* src/spork/env_files.py *)

Raised(exception) == [ok |-> FALSE, raised |-> exception]

\* discover_env_files(workspace_path): kind is what is at workspace_path, at
\* the parts of workspace_path, tree what is under it
discover_env_files(kind, at, tree) ==
    IF kind = "missing" THEN Raised("ValueError")
    ELSE IF kind # "dir" THEN Raised("ValueError")
    ELSE LET matched == {n \in Nodes(tree) : MatchesEnvPattern(n.rel[Len(n.rel)])}
             file_path(n) == at \o n.rel
             kept == {n \in matched :
                         /\ ~(GitDirName \in Range(file_path(n))
                              \/ WorktreesDirName \in Range(file_path(n)))
                         /\ n.kind = "file"}
         IN  [ok |-> TRUE, files |-> Sorted({Join(n.rel) : n \in kept})]

\* get_repo_root(): the toplevel git prints, or RuntimeError
get_repo_root(out, toplevel) ==
    IF out = "exit0" THEN [ok |-> TRUE, path |-> toplevel] ELSE Raised("RuntimeError")

RootOutcomes == {"exit0", "nonzero", "timeout", "notfound"}

\* read_env_file_from_filesystem(workspace_path, filepath)
read_env_file_from_filesystem(tree, filepath, out) ==
    LET rel == PathParts(filepath)
    IN  IF filepath = <<>> THEN Raised("ValueError")
        ELSE IF ~\E n \in Nodes(tree) : n.rel = rel THEN Raised("FileNotFoundError")
        ELSE IF [rel |-> rel, kind |-> "file"] \notin tree THEN Raised("ValueError")
        ELSE IF out = "ok" THEN [ok |-> TRUE, content |-> filepath]
        ELSE Raised("OSError")

\* EnvFileCopyResult without validate_counts
EnvFileCopyResultValid_FieldsOnly(discovered, copied, failed) ==
    discovered >= 0 /\ copied >= 0 /\ failed >= 0

\* src/spork/data_models.py: EnvFileCopyResult's field and model validators
EnvFileCopyResultValid(discovered, copied, failed) ==
    /\ discovered >= 0 /\ copied >= 0 /\ failed >= 0
    /\ ~(copied + failed > discovered)

EnvRaise(exception) ==
    /\ envPc' = "raised"
    /\ envResult' = <<Raised(exception)>>

\* the check of worktree_path.exists() alone
CheckDestination_ExistsOnly ==
    /\ envPc = "start"
    /\ IF fsDest.kind = "missing" THEN EnvRaise("ValueError")
       ELSE envPc' = "resolve" /\ UNCHANGED envResult
    /\ UNCHANGED <<pipelineVars, valVars, allocVars, ctorVars, sanVars, fsVars, envCalls, envLocals>>

\* copy_env_files_to_worktree: the two checks of worktree_path
CheckDestination ==
    /\ envPc = "start"
    /\ IF fsDest.kind = "missing" THEN EnvRaise("ValueError")
       ELSE IF fsDest.kind # "dir" THEN EnvRaise("ValueError")
       ELSE envPc' = "resolve" /\ UNCHANGED envResult
    /\ UNCHANGED <<pipelineVars, valVars, allocVars, ctorVars, sanVars, fsVars, envCalls, envLocals>>

\* copy_env_files_to_worktree: repo_root = get_repo_root()
ResolveRoot ==
    /\ envPc = "resolve"
    /\ \E out \in RootOutcomes :
          LET got == get_repo_root(out, fsSource.at)
          IN  /\ envCalls' = Append(envCalls, [cmd |-> "git rev-parse --show-toplevel", out |-> out])
              /\ IF got.ok
                 THEN /\ repo_root' = <<got.path>>
                      /\ envPc' = "discover"
                      /\ UNCHANGED envResult
                 ELSE /\ EnvRaise("RuntimeError")
                      /\ UNCHANGED repo_root
    /\ UNCHANGED <<pipelineVars, valVars, allocVars, ctorVars, sanVars, fsVars,
                   env_files, envAttempts, files_copied, files_failed, errors>>

\* copy_env_files_to_worktree: env_files = discover_env_files(repo_root)
Discover ==
    /\ envPc = "discover"
    /\ LET got == discover_env_files("dir", repo_root[1], fsSource.tree)
       IN  IF got.ok
           THEN /\ env_files' = got.files
                /\ envPc' = "copy"
                /\ UNCHANGED envResult
           ELSE /\ EnvRaise(got.raised)
                /\ UNCHANGED env_files
    /\ UNCHANGED <<pipelineVars, valVars, allocVars, ctorVars, sanVars, fsVars, envCalls,
                   repo_root, envAttempts, files_copied, files_failed, errors>>

\* what one iteration may meet: the read, the mkdir or the write fails, or none does
CopyOutcomes == {"copied", "read failed", "mkdir failed", "write failed"}

\* a copy that counts the file once its content was read, written or not
CopyFile_CountsOnRead(filepath, out) ==
    LET content == read_env_file_from_filesystem(fsSource.tree, filepath,
                       IF out = "read failed" THEN "error" ELSE "ok")
        parents == {Join(d) : d \in Ancestors(PathParts(filepath))}
    IN  /\ envAttempts' = Append(envAttempts, [filepath |-> filepath, outcome |-> out])
        /\ UNCHANGED env_files
        /\ IF content.ok
           THEN /\ fsDest' = IF out = "copied"
                             THEN [fsDest EXCEPT !.dirs = @ \cup parents, !.files = @ \cup {filepath}]
                             ELSE fsDest
                /\ files_copied' = files_copied + 1
                /\ UNCHANGED <<files_failed, errors>>
           ELSE /\ UNCHANGED fsDest
                /\ files_failed' = files_failed + 1
                /\ errors' = Append(errors, filepath)
                /\ UNCHANGED files_copied

\* copy_env_files_to_worktree: one iteration of the loop over env_files
CopyFile(filepath, out) ==
    LET content == read_env_file_from_filesystem(fsSource.tree, filepath,
                       IF out = "read failed" THEN "error" ELSE "ok")
        parents == {Join(d) : d \in Ancestors(PathParts(filepath))}
    IN  /\ envAttempts' = Append(envAttempts, [filepath |-> filepath, outcome |-> out])
        /\ UNCHANGED env_files
        /\ IF content.ok /\ out = "copied"
           THEN /\ fsDest' = [fsDest EXCEPT !.dirs = @ \cup parents, !.files = @ \cup {filepath}]
                /\ files_copied' = files_copied + 1
                /\ UNCHANGED <<files_failed, errors>>
           ELSE /\ fsDest' = IF content.ok /\ out = "write failed"
                             THEN [fsDest EXCEPT !.dirs = @ \cup parents]
                             ELSE fsDest
                /\ files_failed' = files_failed + 1
                /\ errors' = Append(errors, filepath)
                /\ UNCHANGED files_copied

\* a loop that ends at the first file that failed
LoopContinues_UntilFailure == Len(envAttempts) < Len(env_files) /\ files_failed = 0

\* for filepath in env_files: a file is left to take
LoopContinues == Len(envAttempts) < Len(env_files)

CopyNext ==
    /\ envPc = "copy"
    /\ LoopContinues
    /\ \E out \in CopyOutcomes : CopyFile(env_files[Len(envAttempts) + 1], out)
    /\ UNCHANGED <<pipelineVars, valVars, allocVars, ctorVars, sanVars, fsSource, envPc,
                   envCalls, repo_root, envResult>>

\* copy_env_files_to_worktree: return EnvFileCopyResult(...)
ReturnReport ==
    /\ envPc = "copy"
    /\ ~LoopContinues
    /\ IF EnvFileCopyResultValid(Len(env_files), files_copied, files_failed)
       THEN /\ envPc' = "returned"
            /\ envResult' = <<[ok |-> TRUE,
                               files_discovered |-> Len(env_files),
                               files_copied |-> files_copied,
                               files_failed |-> files_failed,
                               errors |-> errors]>>
       ELSE EnvRaise("ValidationError")
    /\ UNCHANGED <<pipelineVars, valVars, allocVars, ctorVars, sanVars, fsVars, envCalls, envLocals>>

\* discover_env_files called on its own, on a path that may not be a directory
DiscoverOnly ==
    /\ envPc = "start"
    /\ \E kind \in {"dir", "file", "missing"} :
          envResult' = <<discover_env_files(kind, fsSource.at,
                                            IF kind = "dir" THEN fsSource.tree ELSE {})>>
    /\ envPc' = "discovered"
    /\ UNCHANGED <<pipelineVars, valVars, allocVars, ctorVars, sanVars, fsVars, envCalls, envLocals>>

\* EnvFileCopyResult(files_discovered=..., files_copied=..., files_failed=...)
ConstructEnvFileCopyResult ==
    /\ ctorArgs.kind = "EnvFileCopyResult"
    /\ ctorResult = <<>>
    /\ ctorResult' = <<[ok |-> EnvFileCopyResultValid(ctorArgs.files_discovered,
                                   ctorArgs.files_copied, ctorArgs.files_failed)]>>
    /\ UNCHANGED <<pipelineVars, valVars, allocVars, ctorArgs, sanVars, envVars>>

----------------------------------------------------------------------------
(* The env-file functions on their own, over small workspaces *)

File(rel) == [rel |-> rel, kind |-> "file"]
Dir(rel) == [rel |-> rel, kind |-> "dir"]

\* what a workspace may hold
Candidates ==
    {File(<<EnvName>>), File(<<EnvLocalName>>), File(<<SubDirName, EnvName>>),
     File(<<GitDirName, EnvName>>), File(<<WorktreesDirName, WorktreeName, EnvName>>),
     File(<<GithubDirName, EnvName>>), File(<<EnvsDirName, EnvName>>),
     File(<<SubDirName, MyEnvName>>), Dir(<<EnvDirName>>)}

Trees == {t \in SUBSET Candidates : Cardinality(t) <= MaxFiles}

\* the main workspace is a checkout of its own, or a worktree of another
RootLocations == {<<RepoName>>, <<RepoName, WorktreesDirName, WorktreeName>>}

EnvFileCopyResultArgs ==
    [kind : {"EnvFileCopyResult"},
     files_discovered : (0 - 1)..MaxCount,
     files_copied : (0 - 1)..MaxCount,
     files_failed : (0 - 1)..MaxCount]

InitEnv ==
    /\ PipelineIdle
    /\ fnBranches = <<>>
    /\ fnResult = <<>>
    /\ SanIdle
    /\ ValIdle
    /\ ctorResult = <<>>
    /\ envCalls = <<>>
    /\ repo_root = <<>>
    /\ env_files = <<>>
    /\ envAttempts = <<>>
    /\ files_copied = 0
    /\ files_failed = 0
    /\ errors = <<>>
    /\ envResult = <<>>
    /\ \/ /\ ctorArgs = NoArgs
          /\ envPc = "start"
          /\ fsSource \in [at : RootLocations, tree : Trees]
          /\ fsDest \in [kind : {"missing", "file", "dir"}, files : {{}}, dirs : {{}}]
       \/ /\ ctorArgs \in EnvFileCopyResultArgs
          /\ envPc = "idle"
          /\ fsSource = [at |-> <<>>, tree |-> {}]
          /\ fsDest = [kind |-> "missing", files |-> {}, dirs |-> {}]

NextEnv ==
    \/ CheckDestination
    \/ ResolveRoot
    \/ Discover
    \/ CopyNext
    \/ ReturnReport
    \/ DiscoverOnly
    \/ ConstructEnvFileCopyResult

SpecEnv == InitEnv /\ [][NextEnv]_vars

----------------------------------------------------------------------------
(* The validators on their own, and the ValidationResult constructor *)

\* ValidationResult(...) as a validator's return statement evaluates it
Construct(result) ==
    IF ValidationResultValid(result.passed, result.error_message)
    THEN [ok |-> TRUE, value |-> result]
    ELSE Raised("ValidationError")

\* is_git_installed() of validators.py
RunGitInstalled ==
    /\ valOut = <<>>
    /\ \E out \in {"exit0", "nonzero", "timeout", "notfound"} :
          /\ valIn' = [fn |-> "is_git_installed", out |-> out]
          /\ valOut' = <<Construct(validate_git_installed(out))>>
    /\ UNCHANGED <<pipelineVars, allocVars, ctorVars, sanVars, envVars>>

\* is_spec_kit_initialized(repo_path, main_branch)
RunSpecKitInitialized ==
    /\ valOut = <<>>
    /\ \E base \in {"main", "master"}, ignored \in BOOLEAN,
          show \in {"exit0", "nonzero", "timeout"},
          templates \in {"exit0", "empty", "nonzero", "timeout"},
          scripts \in {"exit0", "empty", "nonzero", "timeout"} :
          /\ valIn' = [fn |-> "is_spec_kit_initialized", base |-> base,
                       ignored |-> ignored, show |-> show,
                       templates |-> templates, scripts |-> scripts]
          /\ valOut' = <<Construct(is_spec_kit_initialized(base, ignored, show,
                                                            templates, scripts))>>
    /\ UNCHANGED <<pipelineVars, allocVars, ctorVars, sanVars, envVars>>

\* is_claude_code_installed()
RunClaudeInstalled ==
    /\ valOut = <<>>
    /\ \E out \in {"exit0", "nonzero", "timeout", "notfound"} :
          /\ valIn' = [fn |-> "is_claude_code_installed", out |-> out]
          /\ valOut' = <<Construct(is_claude_code_installed(out))>>
    /\ UNCHANGED <<pipelineVars, allocVars, ctorVars, sanVars, envVars>>

\* ValidationResult(check_name=..., passed=..., error_message=...)
ConstructValidationResult ==
    /\ ctorArgs.kind = "ValidationResult"
    /\ ctorResult = <<>>
    /\ ctorResult' = <<[ok |-> ValidationResultValid(ctorArgs.passed,
                                                     ctorArgs.error_message)]>>
    /\ UNCHANGED <<pipelineVars, allocVars, ctorArgs, sanVars, envVars, valVars>>

\* None, "", a blank and a text
MessageArgs == {NoMessage, <<"">>, <<" ">>, <<"git is missing">>}

ValidationResultArgs ==
    [kind : {"ValidationResult"}, passed : BOOLEAN, error_message : MessageArgs]

InitValidators ==
    /\ PipelineIdle
    /\ fnBranches = <<>>
    /\ fnResult = <<>>
    /\ SanIdle
    /\ EnvIdle
    /\ ValIdle
    /\ ctorResult = <<>>
    /\ ctorArgs \in {NoArgs} \cup ValidationResultArgs

NextValidators ==
    \/ RunGitInstalled
    \/ RunSpecKitInitialized
    \/ RunClaudeInstalled
    \/ ConstructValidationResult

SpecValidators == InitValidators /\ [][NextValidators]_vars

----------------------------------------------------------------------------
(* The FeatureRequest constructor on its own *)

NameAlphabet == {"a", "B", "7", "-", "_"} \cup NonAsciiLetters

FeatureRequestArgs ==
    [kind : {"FeatureRequest"},
     text : {<<>>, <<"a">>, Pad(MaxTextChars), LongText},
     sanitized_name : SeqsUpTo(NameAlphabet, MaxNameLen)
                          \cup {Pad(MaxNameChars), Pad(MaxNameChars + 1)}]

\* FeatureRequest(text=..., sanitized_name=...)
ConstructFeatureRequest ==
    /\ ctorArgs.kind = "FeatureRequest"
    /\ ctorResult = <<>>
    /\ ctorResult' = <<[ok |-> FeatureRequestValid(ctorArgs.text, ctorArgs.sanitized_name)]>>
    /\ UNCHANGED <<pipelineVars, allocVars, ctorArgs, sanVars, envVars, valVars>>

InitRequest ==
    /\ PipelineIdle
    /\ fnBranches = <<>>
    /\ fnResult = <<>>
    /\ SanIdle
    /\ EnvIdle
    /\ ValIdle
    /\ ctorResult = <<>>
    /\ ctorArgs \in FeatureRequestArgs

NextRequest == ConstructFeatureRequest

SpecRequest == InitRequest /\ [][NextRequest]_vars

----------------------------------------------------------------------------
(* Vocabulary of the properties *)

Terminated(r) == pc[r] \in {"done", "crashed"}

\* the prerequisite check an external command belongs to, 0 for the others
CheckOfCommand(cmd) ==
    CASE cmd = "git --version" -> 1
      [] cmd \in {"git rev-parse --is-inside-work-tree",
                  "git rev-parse --show-toplevel"} -> 2
      [] cmd \in {"git show", "git ls-tree templates", "git ls-tree scripts"} -> 3
      [] cmd = "claude --version" -> 4
      [] OTHER -> 0

CountOf(cmd, log) == Cardinality({i \in DOMAIN log : log[i] = cmd})

AllChecksPassed(r) ==
    /\ Len(checks[r]) = 4
    /\ \A i \in 1..4 : checks[r][i].passed

SomeCheckFailed(r) == \E i \in DOMAIN checks[r] : ~checks[r][i].passed

----------------------------------------------------------------------------
(* C1: the prerequisite checks are evaluated in the order 1, 2, 3, 4, each at
   most once; a check that fails is the last one evaluated, and no command of
   a later check is run after it (after a failed check 1 the only command
   run is the version query of git). *)
Thm_C1_CheckOrder ==
    \A r \in Runs :
        /\ Len(checks[r]) <= 4
        /\ \A i \in DOMAIN checks[r] : checks[r][i].check = i
        /\ \A i \in DOMAIN checks[r] : ~checks[r][i].passed => i = Len(checks[r])
        /\ \A i, j \in DOMAIN calls[r] :
              (i < j /\ CheckOfCommand(calls[r][i]) > 0 /\ CheckOfCommand(calls[r][j]) > 0)
                  => CheckOfCommand(calls[r][i]) <= CheckOfCommand(calls[r][j])
        /\ \A k \in DOMAIN checks[r] :
              ~checks[r][k].passed =>
                  \A i \in DOMAIN calls[r] : CheckOfCommand(calls[r][i]) <= k
        /\ (checks[r] # <<>> /\ ~checks[r][1].passed) => calls[r] = <<"git --version">>

\* a run that ended on a failed check 1
Wit_C1_FirstCheckFailed ==
    \E r \in Runs :
        /\ pc[r] = "done"
        /\ Len(checks[r]) = 1
        /\ ~checks[r][1].passed
        /\ calls[r] = <<"git --version">>

(* C2: `git worktree add` is invoked only in runs in which all four checks
   reported passed; a run in which a check failed ends with status 1 and
   creates no worktree and no branch. *)
Thm_C2_CreateOnlyAfterChecks ==
    \A r \in Runs :
        /\ (created[r] # <<>> \/ CountOf("git worktree add", calls[r]) > 0)
              => AllChecksPassed(r)
        /\ SomeCheckFailed(r) =>
              /\ pc[r] = "done"
              /\ exit_code[r] = 1
              /\ created[r] = <<>>
              /\ createResult[r] = "none"
              /\ CountOf("git worktree add", calls[r]) = 0
        /\ (\A q \in Runs : SomeCheckFailed(q) \/ pc[q] = "idle") =>
              /\ worktrees = {}
              /\ \A i \in DOMAIN repoBranches : ~PatternMatches(repoBranches[i])
                    \/ repoBranches[i] \in Range(RepoFeatureNames) \cup Range(RemoteNames)

\* a run that ended on a failed check 4
Wit_C2_FourthCheckFailed ==
    \E r \in Runs :
        /\ pc[r] = "done"
        /\ Len(checks[r]) = 4
        /\ ~checks[r][4].passed
        /\ exit_code[r] = 1

(* C3: the assistant is launched at most once in a run, and only after
   create_worktree returned success in that run; a run that ended without a
   successful creation never invoked the assistant. *)
Thm_C3_LaunchOnceAfterCreate ==
    \A r \in Runs :
        /\ Len(launched[r]) <= 1
        /\ CountOf("claude", calls[r]) = Len(launched[r])
        /\ launched[r] # <<>> =>
              /\ createResult[r] = "ok"
              /\ \E i, j \in DOMAIN calls[r] :
                    i < j /\ calls[r][i] = "git worktree add" /\ calls[r][j] = "claude"
        /\ (Terminated(r) /\ createResult[r] # "ok") =>
              launched[r] = <<>> /\ CountOf("claude", calls[r]) = 0

\* a run that created its worktree and then launched the assistant
Wit_C3_Launched ==
    \E r \in Runs : pc[r] = "done" /\ Len(launched[r]) = 1 /\ createResult[r] = "ok"

(* C4: in every run in which provisioning succeeded, the .env propagation has
   produced a report for the new worktree before the assistant is launched. *)
Cex_C4_PropagationBeforeLaunch ==
    \A r \in Runs :
        (createResult[r] = "ok" /\ launched[r] # <<>>) => Len(copyReport[r]) = 1

(* C5: when the assistant was launched and exited with status c, the process
   exits with exactly c, for every c; when it could not be started the
   process exits with 4. *)
Thm_C5_ExitCodePassThrough ==
    \A r \in Runs :
        launched[r] # <<>> =>
            /\ pc[r] = "done"
            /\ LET out == launched[r][1].outcome
               IN  /\ out.kind = "exit" => exit_code[r] = out.code
                   /\ out.kind # "exit" => exit_code[r] = 4

\* the assistant exited with 2, a status the pipeline also uses itself
Wit_C5_AssistantExitTwo ==
    \E r \in Runs :
        /\ launched[r] # <<>>
        /\ launched[r][1].outcome = [kind |-> "exit", code |-> 2]
        /\ exit_code[r] = 2

(* C6: when create_worktree fails (AlreadyExists, PermissionDenied or
   Unknown) the run exits with status 4 and the assistant is not invoked. *)
Cex_C6_CreateFailureExitsFour ==
    \A r \in Runs :
        (Terminated(r) /\ createResult[r] \in {"AlreadyExists", "PermissionDenied", "Unknown"})
            => exit_code[r] = 4 /\ launched[r] = <<>>

\* both lookups of get_main_branch answered that the branch does not exist
NeitherBaseBranch(r) ==
    /\ MainName \notin Range(repoBranches)
    /\ MasterName \notin Range(repoBranches)
    /\ CountOf("git rev-parse --verify main", calls[r]) = 1
    /\ CountOf("git rev-parse --verify master", calls[r]) = 1
    /\ pc[r] # "crashed"

\* the listing holds a branch numbered 999: "999-" after the final "/"
ListingExhausted(r) ==
    \E i \in DOMAIN branches[r] :
        LET b == branches[r][i]
        IN  \E k \in 0..Len(b) :
               /\ k = 0 \/ b[k] = "/"
               /\ \A j \in (k + 1)..Len(b) : b[j] # "/"
               /\ Len(b) >= k + 4
               /\ SubSeq(b, k + 1, k + 4) = <<"9", "9", "9", "-">>

(* C7: when checks 1-2 passed and neither main nor master exists, and when
   all four checks passed and the listing holds a branch numbered 999, the run
   exits with status 2, creates no worktree and does not invoke the assistant. *)
Thm_C7_DomainLimitExitsTwo ==
    \A r \in Runs :
        /\ (Len(checks[r]) >= 2 /\ checks[r][2].passed /\ NeitherBaseBranch(r)) =>
              /\ pc[r] = "done"
              /\ exit_code[r] = 2
              /\ Len(checks[r]) = 2
              /\ created[r] = <<>> /\ launched[r] = <<>>
              /\ CountOf("git worktree add", calls[r]) = 0
        /\ (AllChecksPassed(r) /\ ListingExhausted(r)
                /\ pc[r] \notin {"fetch", "list", "allocate"}) =>
              /\ pc[r] = "done"
              /\ exit_code[r] = 2
              /\ created[r] = <<>> /\ launched[r] = <<>>
              /\ CountOf("git worktree add", calls[r]) = 0
              /\ worktrees = {}

\* all checks passed and the number space is exhausted
Wit_C7_NumberSpaceExhausted ==
    \E r \in Runs :
        /\ AllChecksPassed(r)
        /\ ListingExhausted(r)
        /\ pc[r] = "done"
        /\ exit_code[r] = 2

\* the raw text is empty, blank, too long, or sanitizes to nothing
InvalidText(text) ==
    \/ text = <<>>
    \/ \A i \in DOMAIN text : text[i] \in Whitespace
    \/ Len(text) > MaxTextChars
    \/ \A i \in DOMAIN text : text[i] \notin LowerLetters \cup UpperLetters \cup DigitChars

(* C8: an invalid raw text ends the run with status 3 before any external
   command is invoked and before any check is evaluated. *)
Cex_C8_InvalidTextImmediate ==
    \A r \in Runs :
        InvalidText(feature_request[r]) =>
            /\ calls[r] = <<>>
            /\ checks[r] = <<>>
            /\ Terminated(r) => exit_code[r] = 3

----------------------------------------------------------------------------
(* Properties of the allocator, under SpecAlloc *)

\* the value of three decimal digits
ThreeDigitValue(d) == 100 * DigitVal(d[1]) + 10 * DigitVal(d[2]) + DigitVal(d[3])

\* name b has, right after its final "/" (or at its start when it has none),
\* three digits and then a hyphen
HasFeatureShape(b, k) ==
    /\ k = 0 \/ b[k] = "/"
    /\ \A j \in (k + 1)..Len(b) : b[j] # "/"
    /\ Len(b) >= k + 4
    /\ \A j \in (k + 1)..(k + 3) : b[j] \in DigitChars
    /\ b[k + 4] = "-"

\* the numbers of the names of bs that have that shape
ShapedNumbers(bs) ==
    UNION {{ThreeDigitValue(SubSeq(bs[i], k + 1, k + 3)) :
                k \in {j \in 0..Len(bs[i]) : HasFeatureShape(bs[i], j)}} :
           i \in DOMAIN bs}

ExpectedNext(bs) == IF ShapedNumbers(bs) = {} THEN 1 ELSE Max(ShapedNumbers(bs)) + 1

(* C9: get_next_feature_number yields 1 when no name has three digits and a
   hyphen right after its final "/", and otherwise the largest such number
   plus one (never a smaller unused number); names with two or four leading
   digits, with the digits not at the start, or without the hyphen count for
   nothing.  A next number above 999 is not returned. *)
Thm_C9_NextIsMaxPlusOne ==
    fnResult # <<>> =>
        /\ ExpectedNext(fnBranches) <= MaxFeatureNumber =>
              fnResult[1].ok /\ fnResult[1].number = ExpectedNext(fnBranches)
        /\ ExpectedNext(fnBranches) > MaxFeatureNumber => ~fnResult[1].ok

\* ["0990-x", "009-x"]: the four-digit name is ignored and the result is 10
Wit_C9_IgnoredAndGap ==
    /\ fnBranches = << <<"0","9","9","0","-","x">>, <<"0","0","9","-","x">> >>
    /\ fnResult # <<>>
    /\ fnResult[1].ok
    /\ fnResult[1].number = 10

RemotePrefixes == {<<>>, <<"o", "/">>, <<"a", "/", "b", "/">>}

(* C10: for every list that holds a name NNN-x, with or without a remote
   prefix, get_next_feature_number fails or returns a number greater than
   NNN. *)
Thm_C10_AllocatorMonotonic ==
    fnResult # <<>> =>
        \A i \in DOMAIN fnBranches :
            \A d \in DigitRuns(PatternDigits), pre \in RemotePrefixes :
                fnBranches[i] = pre \o d \o XTail =>
                    ~fnResult[1].ok \/ fnResult[1].number > ThreeDigitValue(d)

\* ["o/090-x", "009-x"]: the result, 91, is above both numbers
Wit_C10_AboveBoth ==
    /\ fnBranches = << <<"o","/","0","9","0","-","x">>, <<"0","0","9","-","x">> >>
    /\ fnResult # <<>>
    /\ fnResult[1].ok
    /\ fnResult[1].number = 91

----------------------------------------------------------------------------
(* Properties of FeatureNumber, under SpecAlloc *)

\* n written with exactly three decimal digits, 0 <= n <= 999
ZeroPad3(n) ==
    <<DigitSeq[(n \div 100) + 1], DigitSeq[((n \div 10) % 10) + 1], DigitSeq[(n % 10) + 1]>>

(* C11: get_next_feature_number fails exactly when a name of the list is
   numbered 999; otherwise it returns a FeatureNumber with 1 <= number <= 999
   and formatted the number zero-padded to three digits; and no FeatureNumber
   outside that range, or whose formatted differs from its padded number, can
   be constructed. *)
Thm_C11_FeatureNumberInvariant ==
    /\ fnResult # <<>> =>
          /\ ~fnResult[1].ok <=> MaxFeatureNumber \in ShapedNumbers(fnBranches)
          /\ fnResult[1].ok =>
                /\ fnResult[1].number >= 1 /\ fnResult[1].number <= MaxFeatureNumber
                /\ fnResult[1].formatted = ZeroPad3(fnResult[1].number)
    /\ (ctorArgs.kind = "FeatureNumber" /\ ctorResult # <<>>) =>
          (ctorResult[1].ok <=>
              /\ ctorArgs.number >= 1 /\ ctorArgs.number <= MaxFeatureNumber
              /\ ctorArgs.formatted = ZeroPad3(ctorArgs.number))

\* FeatureNumber(number=7, formatted="077") was refused
Wit_C11_MismatchRefused ==
    /\ ctorArgs = [kind |-> "FeatureNumber", number |-> 7, formatted |-> <<"0","7","7">>]
    /\ ctorResult # <<>>
    /\ ~ctorResult[1].ok

----------------------------------------------------------------------------
(* Properties of sanitize_feature_name, under SpecSanitize *)

(* C12: with the default max_length, sanitizing a sanitized name changes
   nothing, also when the first pass truncated its input and when the
   truncation point fell on a hyphen. *)
Thm_C12_SanitizeIdempotent ==
    (sanAgain # <<>> /\ sanIn.max_length = DefaultMaxLength) => sanAgain[1] = sanOut[1]

\* 49 letters, a hyphen at position 50 and a letter after it: the cut falls
\* on the hyphen, and both passes were made
Wit_C12_CutOnHyphen ==
    /\ sanIn.name = Pad(DefaultMaxLength - 1) \o <<"-", "a">>
    /\ sanIn.max_length = DefaultMaxLength
    /\ sanAgain # <<>>
    /\ Len(sanOut[1]) = DefaultMaxLength - 1

IsNameAlnum(c) == c \in LowerLetters \cup DigitChars

(* C13: for every name and every max_length >= 1 the result is empty, or is
   made of a-z, 0-9 and "-" only, starts and ends with a letter or digit,
   has no two hyphens in a row and is at most max_length long. *)
Thm_C13_SanitizeShape ==
    sanOut # <<>> =>
        LET o == sanOut[1]
        IN  \/ o = <<>>
            \/ /\ \A i \in DOMAIN o : IsNameAlnum(o[i]) \/ o[i] = "-"
               /\ IsNameAlnum(o[1])
               /\ IsNameAlnum(o[Len(o)])
               /\ \A i \in 1..(Len(o) - 1) : ~(o[i] = "-" /\ o[i + 1] = "-")
               /\ Len(o) <= sanIn.max_length

\* "a-B" under max_length 2: cut to "a-", returned as "a"
Wit_C13_SmallLimit ==
    /\ sanIn = [name |-> <<"a", "-", "B">>, max_length |-> 2]
    /\ sanOut = <<<<"a">>>>

\* the six steps of the reference procedure, each written on its own
RefStep1(s) ==
    [i \in DOMAIN s |->
        IF \E k \in DOMAIN UpperSeq : UpperSeq[k] = s[i]
        THEN LowerSeq[CHOOSE k \in DOMAIN UpperSeq : UpperSeq[k] = s[i]]
        ELSE s[i]]
RefStep2(s) == [i \in DOMAIN s |-> IF s[i] \in {"_", " "} THEN "-" ELSE s[i]]
RefStep3(s) == [i \in DOMAIN s |-> IF IsNameAlnum(s[i]) \/ s[i] = "-" THEN s[i] ELSE "-"]
RECURSIVE RefStep4(_)
RefStep4(s) ==
    IF s = <<>> THEN <<>>
    ELSE LET front == RefStep4([i \in 1..(Len(s) - 1) |-> s[i]])
             last == s[Len(s)]
         IN  IF last = "-" /\ front # <<>> /\ front[Len(front)] = "-"
             THEN front
             ELSE Append(front, last)
RefStep5(s) ==
    LET solid == {i \in DOMAIN s : s[i] # "-"}
    IN  IF solid = {} THEN <<>>
        ELSE SubSeq(s, CHOOSE i \in solid : \A j \in solid : i <= j,
                       CHOOSE i \in solid : \A j \in solid : j <= i)
RefStep6(s, n) ==
    LET cut == IF Len(s) > n THEN [i \in 1..n |-> s[i]] ELSE s
    IN  IF cut # <<>> /\ cut[Len(cut)] = "-" THEN [i \in 1..(Len(cut) - 1) |-> cut[i]] ELSE cut

Reference(s, n) == RefStep6(RefStep5(RefStep4(RefStep3(RefStep2(RefStep1(s))))), n)

FixBugExpected ==
    <<"f","i","x","-","b","u","g","-","1","2","3","-","c","r","i","t","i","c","a","l">>
AddUserExpected ==
    <<"a","d","d","-","u","s","e","r","-","p","r","o","f","i","l","e">>

(* C14: sanitize_feature_name(text, max_length) is the result of the six
   steps taken in order: lowercase; underscores and spaces to hyphens; every
   other character outside a-z, 0-9, "-" to a hyphen; runs of hyphens to
   one; leading and trailing hyphens off; cut to max_length and a trailing
   hyphen off.  'Fix bug #123 (critical!)' gives 'fix-bug-123-critical' and
   'add_user_profile' gives 'add-user-profile'. *)
Thm_C14_SanitizeIsReference ==
    sanOut # <<>> =>
        /\ sanOut[1] = Reference(sanIn.name, sanIn.max_length)
        /\ sanIn.name = ExampleFixBug => sanOut[1] = FixBugExpected
        /\ sanIn.name = ExampleAddUser => sanOut[1] = AddUserExpected

\* the first example of the docstring was sanitized
Wit_C14_FixBugExample ==
    /\ sanIn.name = ExampleFixBug
    /\ sanOut = <<FixBugExpected>>

----------------------------------------------------------------------------
(* Properties of the env-file functions, under SpecEnv *)

EnvReturned == envPc = "returned"
EnvRaised == envPc = "raised"

(* C15: every EnvFileCopyResult that exists has files_discovered,
   files_copied and files_failed at least 0 and files_copied + files_failed
   at most files_discovered; a construction from counts that break this
   fails, and one from counts that keep it succeeds, whatever part of the
   discovered files is left unaccounted. *)
Thm_C15_CopyReportInvariant ==
    /\ (ctorArgs.kind = "EnvFileCopyResult" /\ ctorResult # <<>>) =>
          (ctorResult[1].ok <=>
              /\ ctorArgs.files_discovered >= 0
              /\ ctorArgs.files_copied >= 0
              /\ ctorArgs.files_failed >= 0
              /\ ctorArgs.files_copied + ctorArgs.files_failed <= ctorArgs.files_discovered)
    /\ EnvReturned =>
          /\ envResult[1].files_discovered >= 0
          /\ envResult[1].files_copied >= 0
          /\ envResult[1].files_failed >= 0
          /\ envResult[1].files_copied + envResult[1].files_failed
                 <= envResult[1].files_discovered

\* two discovered, one copied and two failed: refused
Wit_C15_OvercountRefused ==
    /\ ctorArgs = [kind |-> "EnvFileCopyResult", files_discovered |-> 2,
                   files_copied |-> 1, files_failed |-> 2]
    /\ ctorResult # <<>>
    /\ ~ctorResult[1].ok

StrictlySorted(list) ==
    \A i \in DOMAIN list : \A j \in DOMAIN list : i < j => StrLess(list[i], list[j])

(* C16: once the destination is a directory and the source root is
   resolved, the files discovered are attempted one each, in sorted order,
   whether or not earlier ones failed; a file whose own copy met no failure
   is at the destination afterwards; and the call returns a report, it does
   not raise. *)
Thm_C16_BestEffort ==
    /\ repo_root # <<>> => ~EnvRaised
    /\ envPc = "copy" =>
          /\ Len(envAttempts) <= Len(env_files)
          /\ \A i \in DOMAIN envAttempts : envAttempts[i].filepath = env_files[i]
    /\ EnvReturned =>
          /\ [i \in DOMAIN envAttempts |-> envAttempts[i].filepath] = env_files
          /\ StrictlySorted(env_files)
          /\ \A i \in DOMAIN envAttempts :
                envAttempts[i].outcome = "copied" => envAttempts[i].filepath \in fsDest.files
          /\ envResult[1].ok

\* the first file could not be read, the second was copied, a report came back
Wit_C16_CopiedAfterFailure ==
    /\ EnvReturned
    /\ Len(envAttempts) >= 2
    /\ envAttempts[1].outcome = "read failed"
    /\ envAttempts[2].outcome = "copied"
    /\ envAttempts[2].filepath \in fsDest.files

(* C17: when the destination does not exist or is not a directory, or when
   the source root cannot be resolved, the call raises and nothing is
   written or created at the destination; the destination is looked at
   first, so that with a bad destination git is never called. *)
Thm_C17_PreconditionsFailFast ==
    /\ (fsDest.kind # "dir" /\ envPc \notin {"start", "discovered", "idle"}) =>
          /\ EnvRaised
          /\ envResult[1].raised = "ValueError"
          /\ envCalls = <<>>
    /\ (\E i \in DOMAIN envCalls : envCalls[i].out # "exit0") =>
          /\ EnvRaised
          /\ envResult[1].raised = "RuntimeError"
    /\ EnvRaised =>
          /\ fsDest.files = {} /\ fsDest.dirs = {}
          /\ envAttempts = <<>>

\* the destination is a file: ValueError, and git was not asked
Wit_C17_DestinationIsFile ==
    /\ fsDest.kind = "file"
    /\ fsSource.tree # {}
    /\ EnvRaised
    /\ envResult[1].raised = "ValueError"
    /\ envCalls = <<>>

\* the regular files of a tree that discovery is to return
WantedFiles(tree) ==
    {Join(e.rel) : e \in
        {f \in tree :
            /\ f.kind = "file"
            /\ MatchesEnvPattern(f.rel[Len(f.rel)])
            /\ \A k \in 1..(Len(f.rel) - 1) : f.rel[k] \notin {GitDirName, WorktreesDirName}}}

(* C18: for every source root that is a directory, wherever it is,
   discovery returns the relative paths of the regular files under it whose
   name begins with ".env" and whose path from the root goes through no
   directory named ".git" or ".worktrees": all of them, nothing else, sorted
   and without duplicates. *)
Cex_C18_DiscoveryExact ==
    (envPc = "discovered" /\ envResult[1].ok) =>
        /\ Range(envResult[1].files) = WantedFiles(fsSource.tree)
        /\ StrictlySorted(envResult[1].files)

AttemptFailed(attempt) == attempt.outcome # "copied"

\* the paths of the attempts that failed, in the order they were made
FailedPaths ==
    LET failed == SelectSeq(envAttempts, AttemptFailed)
    IN  [i \in DOMAIN failed |-> failed[i].filepath]

(* C30: a report that copy_env_files_to_worktree returns accounts for every
   discovered file once: files_copied + files_failed = files_discovered;
   errors has files_failed entries, those of the files that failed, in the
   sorted order they were taken; and a file is counted as copied only when
   its content was read from the source and written at the same relative
   path under the destination. *)
Thm_C30_ReportAccounts ==
    EnvReturned =>
        /\ envResult[1].files_copied + envResult[1].files_failed
               = envResult[1].files_discovered
        /\ Len(envResult[1].errors) = envResult[1].files_failed
        /\ envResult[1].errors = FailedPaths
        /\ StrictlySorted(envResult[1].errors)
        /\ envResult[1].files_copied
               = Cardinality({i \in DOMAIN envAttempts : ~AttemptFailed(envAttempts[i])})
        /\ \A i \in DOMAIN envAttempts :
              ~AttemptFailed(envAttempts[i]) =>
                  /\ read_env_file_from_filesystem(fsSource.tree,
                         envAttempts[i].filepath, "ok").ok
                  /\ envAttempts[i].filepath \in fsDest.files

\* three files: one copied, a read and a write failed, both in errors
Wit_C30_TwoErrorsOneCopy ==
    /\ EnvReturned
    /\ envResult[1].files_copied = 1
    /\ envResult[1].files_failed = 2
    /\ Len(envResult[1].errors) = 2
    /\ \E i \in DOMAIN envAttempts : envAttempts[i].outcome = "write failed"
    /\ \E i \in DOMAIN envAttempts : envAttempts[i].outcome = "read failed"

----------------------------------------------------------------------------
(* Properties of provisioning and of the handoff, under Spec *)

\* the class the text on stderr puts a failed `git worktree add` in
ClassOfStderr(stderr) ==
    CASE "already exists" \in stderr -> "AlreadyExists"
      [] "already exists" \notin stderr /\ "Permission denied" \in stderr -> "PermissionDenied"
      [] OTHER -> "Unknown"

(* C19: create_worktree succeeds exactly when `git worktree add` exits 0.
   Otherwise it fails with one error: AlreadyExists when stderr contains
   "already exists", else PermissionDenied when it contains "Permission
   denied", else Unknown; a git that cannot be started, or a timeout, is
   Unknown whatever was printed.  A failure is followed by no further
   command. *)
Thm_C19_CreateClassification ==
    \A r \in Runs : \A i \in DOMAIN created[r] :
        LET out == created[r][i].out
        IN  /\ createResult[r] = "ok" <=> out.kind = "exit0"
            /\ out.kind = "nonzero" => createResult[r] = ClassOfStderr(out.stderr)
            /\ out.kind \in {"timeout", "notfound"} => createResult[r] = "Unknown"
            /\ out.kind # "exit0" =>
                  /\ createResult[r] \in {"AlreadyExists", "PermissionDenied", "Unknown"}
                  /\ calls[r][Len(calls[r])] = "git worktree add"
                  /\ CountOf("git worktree add", calls[r]) = 1
                  /\ launched[r] = <<>>
                  /\ Terminated(r)

\* stderr held both phrases: the failure is AlreadyExists
Wit_C19_BothPhrases ==
    \E r \in Runs :
        /\ created[r] # <<>>
        /\ created[r][1].out =
              [kind |-> "nonzero", stderr |-> {"already exists", "Permission denied"}]
        /\ createResult[r] = "AlreadyExists"

(* C20: whenever the assistant is launched it is given one argument, the
   text "/specify " followed by the feature text as the user typed it, not
   its sanitized name, and it runs in the directory of the worktree this run
   created. *)
Thm_C20_LaunchArguments ==
    \A r \in Runs : \A i \in DOMAIN launched[r] :
        /\ Len(launched[r][i].argv) = 2
        /\ launched[r][i].argv[2] = <<"/specify ">> \o feature_request[r]
        /\ created[r] # <<>>
        /\ createResult[r] = "ok"
        /\ launched[r][i].cwd = created[r][Len(created[r])].path
        /\ launched[r][i].cwd.name \in worktrees

\* the assistant was started for the text "B#", whose sanitized name is "b"
Wit_C20_RawTextHandedOver ==
    \E r \in Runs :
        /\ feature_request[r] = <<"B", "#">>
        /\ launched[r] # <<>>
        /\ launched[r][1].outcome.kind = "exit"


(* C21: whenever `git worktree add` is invoked, the new branch is named
   "<formatted>-<sanitized_name>" from the FeatureNumber allocated and the
   sanitized request of this run, the path is <repo-root>/.worktrees/<that
   name>, and the base branch is the one this run determined. *)
Thm_C21_CreateArguments ==
    \A r \in Runs : \A i \in DOMAIN created[r] :
        LET name == ZeroPad3(feature_number[r].number) \o <<"-">>
                        \o Reference(feature_request[r], DefaultMaxLength)
        IN  /\ feature_number[r].ok /\ feature_req[r].ok
            /\ feature_number[r].formatted = ZeroPad3(feature_number[r].number)
            /\ feature_req[r].sanitized_name = Reference(feature_request[r], DefaultMaxLength)
            /\ created[r][i].branch_name = name
            /\ created[r][i].path = [root |-> RepoRoot, dir |-> ".worktrees", name |-> name]
            /\ created[r][i].base_branch = main_branch[r]
            /\ main_branch[r] \in {"main", "master"}

\* a creation on master, numbered after a branch the repository holds
Wit_C21_NumberedOnMaster ==
    \E r \in Runs :
        /\ created[r] # <<>>
        /\ created[r][1].base_branch = "master"
        /\ feature_number[r].number > 1
        /\ feature_request[r] = <<"B", "#">>

----------------------------------------------------------------------------
(* Properties of the validators, under SpecValidators *)

\* the message is there and has a character in it
PresentMessage(m) == m # NoMessage /\ \E i \in DOMAIN m : m[i] # ""

(* C22: every failed ValidationResult has an error_message that is present
   and not empty: a construction with passed false and the message missing
   or empty is refused, and each failing result a validator returns has a
   message. *)
Thm_C22_FailedOutcomeHasMessage ==
    /\ (ctorArgs.kind = "ValidationResult" /\ ctorResult # <<>>) =>
          (ctorResult[1].ok <=> (ctorArgs.passed \/ PresentMessage(ctorArgs.error_message)))
    /\ valOut # <<>> =>
          /\ valOut[1].ok
          /\ ~valOut[1].value.passed => PresentMessage(valOut[1].value.error_message)

\* passed false with the message "": refused
Wit_C22_EmptyMessageRefused ==
    /\ ctorArgs = [kind |-> "ValidationResult", passed |-> FALSE, error_message |-> <<"">>]
    /\ ctorResult # <<>>
    /\ ~ctorResult[1].ok

ScaffoldCommands == <<"git show", "git ls-tree templates", "git ls-tree scripts">>

\* the first of the four sub-checks that fails, 0 when none does
FirstFailing(in) ==
    IF in.ignored THEN 1
    ELSE IF in.show # "exit0" THEN 2
    ELSE IF in.templates # "exit0" THEN 3
    ELSE IF in.scripts # "exit0" THEN 4
    ELSE 0

\* what the message of a failed scaffold check is about
FailureNames(k, m) ==
    CASE k = 1 -> m = <<"Spec Kit (.specify/) is listed in .gitignore">>
      [] k = 2 -> m[1] \in {"Spec Kit not found on ", "Could not verify Spec Kit on "}
      [] k = 3 -> \/ ".specify/templates" \in Range(m)
                  \/ m[1] = "Could not verify Spec Kit structure on "
      [] k = 4 -> \/ ".specify/scripts" \in Range(m)
                  \/ m[1] = "Could not verify Spec Kit structure on "
      [] OTHER -> m = NoMessage

(* C26: the scaffold check takes its sub-checks in the order ignore rule,
   constitution file, templates directory, scripts directory, the last
   three on the base branch; it returns the failure of the first that
   fails and runs none after it (no git command at all when the ignore
   rule matches), and reports passed only when the four pass. *)
Thm_C26_ScaffoldOrder ==
    (valOut # <<>> /\ valIn.fn = "is_spec_kit_initialized") =>
        LET k == FirstFailing(valIn)
            v == valOut[1].value
        IN  /\ v.passed <=> k = 0
            /\ v.cmds = SubSeq(ScaffoldCommands, 1, IF k = 0 THEN 3 ELSE k - 1)
            /\ FailureNames(k, v.error_message)

\* the ignore rule matched and the constitution file is missing too: no command
Wit_C26_IgnoredRunsNothing ==
    /\ valOut # <<>>
    /\ valIn.fn = "is_spec_kit_initialized"
    /\ valIn.ignored /\ valIn.show = "nonzero"
    /\ valOut[1].value.cmds = <<>>
    /\ ~valOut[1].value.passed

----------------------------------------------------------------------------
(* Properties of FeatureRequest, under SpecRequest *)

(* C23: a FeatureRequest is constructed only from a text of 1 to 500
   characters and a sanitized_name of 1 to 50 characters, each of them a
   lowercase letter a-z, a digit or the hyphen; a sanitized_name holding an
   uppercase letter, an underscore or a letter outside ASCII is refused. *)
Cex_C23_RequestAlphabet ==
    (ctorArgs.kind = "FeatureRequest" /\ ctorResult # <<>> /\ ctorResult[1].ok) =>
        /\ Len(ctorArgs.text) >= 1 /\ Len(ctorArgs.text) <= MaxTextChars
        /\ Len(ctorArgs.sanitized_name) >= 1
        /\ Len(ctorArgs.sanitized_name) <= MaxNameChars
        /\ \A i \in DOMAIN ctorArgs.sanitized_name :
              ctorArgs.sanitized_name[i] \in LowerLetters \cup DigitChars \cup {"-"}

----------------------------------------------------------------------------
(* Properties of the base branch and of the listing, under Spec *)

Asked(r, name) ==
    CountOf(IF name = "main" THEN "git rev-parse --verify main"
            ELSE "git rev-parse --verify master", calls[r]) > 0

HasBranch(name) == name \in Range(repoBranches)

(* C24: get_main_branch returns "main" whenever a branch main exists,
   whether or not master exists too; it returns "master" only when main
   does not exist and master does; it fails when neither exists; and master
   is looked up only after the lookup of main failed.  A lookup that times
   out answers neither way: the exception it raises ends the run, which is
   the case pc = "crashed" left aside here. *)
Thm_C24_MainBeforeMaster ==
    \A r \in Runs :
        /\ Asked(r, "master") =>
              /\ ~HasBranch(MainName)
              /\ calls[r][Len(calls[r])] = "git rev-parse --verify master"
                     => calls[r][Len(calls[r]) - 1] = "git rev-parse --verify main"
              /\ \E i \in DOMAIN calls[r] :
                    /\ calls[r][i] = "git rev-parse --verify main"
                    /\ \A j \in 1..i : calls[r][j] # "git rev-parse --verify master"
        /\ (Asked(r, "main") /\ pc[r] # "crashed") =>
              /\ HasBranch(MainName) => (main_branch[r] = "main" /\ ~Asked(r, "master"))
              /\ (~HasBranch(MainName) /\ HasBranch(MasterName)) => main_branch[r] = "master"
              /\ main_branch[r] = "master" => (~HasBranch(MainName) /\ HasBranch(MasterName))
              /\ (~HasBranch(MainName) /\ ~HasBranch(MasterName)) =>
                    /\ main_branch[r] = ""
                    /\ Terminated(r)
                    /\ exit_code[r] = 2
                    /\ created[r] = <<>>

\* the repository holds main and master: main was returned, master never asked for
Wit_C24_BothExist ==
    \E r \in Runs :
        /\ HasBranch(MainName) /\ HasBranch(MasterName)
        /\ main_branch[r] = "main"
        /\ ~Asked(r, "master")
        /\ pc[r] = "spec_kit"


\* git fetch was run and failed: what the remote holds is still not fetched
FetchFailed(r) ==
    /\ CountOf("git fetch", calls[r]) > 0
    /\ remotePending # <<>>

\* git branch -a was run and failed: a repository that got this far holds
\* main or master, and the list came back empty
ListingFailed(r) ==
    /\ CountOf("git branch -a", calls[r]) > 0
    /\ branches[r] = <<>>

(* C25: a failure of any external command other than a per-file copy ends
   the run: when git fetch fails, or when the branch listing fails, the run
   terminates with a non-zero status, no number is allocated from the
   incomplete data and no worktree is created. *)
Cex_C25_FetchAndListFatal ==
    \A r \in Runs :
        (FetchFailed(r) \/ ListingFailed(r)) =>
            /\ Terminated(r)
            /\ exit_code[r] # 0
            /\ ~feature_number[r].ok
            /\ created[r] = <<>>

\* the text cli() was given cannot become a FeatureRequest: it is too long,
\* or nothing of it is left after sanitizing
Unbuildable(r) ==
    \/ Len(feature_request[r]) > MaxTextChars
    \/ sanitize_feature_name(feature_request[r], DefaultMaxLength) = <<>>

\* cli() is past the construction of the FeatureRequest
PastRequest(r) ==
    /\ feature_number[r].ok
    /\ pc[r] # "request"

(* C29: when the four checks passed and a number was allocated, a feature
   text of more than 500 characters, or one whose sanitized form is empty,
   ends the run with exit code 3: `git worktree add` and claude are never
   run for it, and no branch named just "NNN-" is ever created. *)
Thm_C29_UnbuildableExitsThree ==
    \A r \in Runs :
        /\ (AllChecksPassed(r) /\ PastRequest(r) /\ Unbuildable(r)) =>
              /\ Terminated(r)
              /\ exit_code[r] = 3
              /\ created[r] = <<>>
              /\ launched[r] = <<>>
        /\ \A i \in DOMAIN created[r] : Len(created[r][i].branch_name) > PatternDigits + 1

\* "#" got through the checks and the allocation, and ended the run with 3
Wit_C29_PunctuationOnly ==
    \E r \in Runs :
        /\ AllChecksPassed(r) /\ PastRequest(r)
        /\ feature_request[r] = <<"#">>
        /\ exit_code[r] = 3
        /\ CountOf("git branch -a", calls[r]) > 0

----------------------------------------------------------------------------
(* Properties of runs one after the other, under SpecSequential *)

CreatedBranch(r) == created[r][Len(created[r])].branch_name

Provisioned(r) == created[r] # <<>> /\ createResult[r] = "ok"

(* C27: over runs that do not overlap, when the listing of each run
   succeeded and showed the branches the earlier runs created, the numbers
   of the branches created increase strictly from run to run: no two
   created branches have the same number, and the branch name a run
   composes is not a name of its own listing. *)
Thm_C27_SequentialNumbersIncrease ==
    /\ \A q \in Runs : \A r \in Runs :
          (/\ q < r
           /\ Provisioned(q) /\ Provisioned(r)
           /\ CreatedBranch(q) \in Range(branches[r])) =>
              /\ feature_number[q].number < feature_number[r].number
              /\ ThreeDigitValue(SubSeq(CreatedBranch(q), 1, 3))
                    < ThreeDigitValue(SubSeq(CreatedBranch(r), 1, 3))
    /\ \A r \in Runs :
          (created[r] # <<>> /\ ~ListingFailed(r)) =>
              CreatedBranch(r) \notin Range(branches[r])

\* two runs after a branch 007: the first created 008, the second saw it and created 009
Wit_C27_EightThenNine ==
    /\ Provisioned(1) /\ Provisioned(2)
    /\ CreatedBranch(1) \in Range(branches[2])
    /\ feature_number[1].number = 8
    /\ feature_number[2].number = 9

----------------------------------------------------------------------------
(* Properties of two runs at the same time, under SpecRace *)

\* `git worktree add` did what the repository's state alone decides: it
\* succeeded, or it refused a branch or directory that was there
GitDecided(r) ==
    /\ created[r] # <<>>
    /\ \/ created[r][1].out.kind = "exit0"
       \/ created[r][1].out.kind = "nonzero" /\ created[r][1].existed

\* both runs listed the same branches, neither saw a branch of the other,
\* and both went on to `git worktree add`
Raced(q, r) ==
    /\ q # r
    /\ ~ListingFailed(q) /\ ~ListingFailed(r)
    /\ branches[q] = branches[r]
    /\ GitDecided(q) /\ GitDecided(r)

(* C28: nothing serialises the time between a run's listing and its
   `git worktree add`.  When two runs list before either creates, both
   allocate the same number; with different sanitized names both creations
   succeed and the repository holds two branches of that number; with the
   same sanitized name one creation succeeds and the other fails as
   AlreadyExists. *)
Thm_C28_RaceOnNumber ==
    \A q \in RaceRuns : \A r \in RaceRuns :
        Raced(q, r) =>
            /\ feature_number[q].number = feature_number[r].number
            /\ feature_req[q].sanitized_name # feature_req[r].sanitized_name =>
                  /\ Provisioned(q) /\ Provisioned(r)
                  /\ CreatedBranch(q) # CreatedBranch(r)
                  /\ CreatedBranch(q) \in Range(repoBranches)
                  /\ CreatedBranch(r) \in Range(repoBranches)
                  /\ SubSeq(CreatedBranch(q), 1, 3) = SubSeq(CreatedBranch(r), 1, 3)
            /\ feature_req[q].sanitized_name = feature_req[r].sanitized_name =>
                  /\ CreatedBranch(q) = CreatedBranch(r)
                  /\ Provisioned(q) # Provisioned(r)
                  /\ ~Provisioned(q) => createResult[q] = "AlreadyExists"
                  /\ ~Provisioned(r) => createResult[r] = "AlreadyExists"

\* two branches numbered 008 after a race of "a" against "B#"
Wit_C28_TwoBranchesOneNumber ==
    /\ Raced(1, 2)
    /\ Provisioned(1) /\ Provisioned(2)
    /\ feature_number[1].number = 8 /\ feature_number[2].number = 8
    /\ CreatedBranch(1) # CreatedBranch(2)
    /\ CreatedBranch(1) \in Range(repoBranches) /\ CreatedBranch(2) \in Range(repoBranches)

====
